---------------------------- MODULE Spec2Model ----------------------------
(***************************************************************************)
(* Greenland-AI: the three analytical engines of the building energy       *)
(* dashboard (EnergyOptimizer, EnergyForecaster, AnomalyDetector).         *)
(*                                                                         *)
(* Numbers.  The engines compute on JavaScript numbers.  The model uses    *)
(* exact fixed-point integers and names the unit of every quantity:        *)
(*   energy arguments            milli-kWh   (0.001 kWh)                   *)
(*   energy fields of a result   centi-kWh   (the code rounds to 0.01)     *)
(*   grid price argument         milli-$/kWh (0.001)                       *)
(*   adjusted price              1e-4 $/kWh  (price * multiplier in tenths)*)
(*   percentages of a result     tenths of a percent (rounded to 0.1)      *)
(* A value that may be NaN or infinite is a record [kind, val] (see Num).  *)
(* Binary floating-point rounding error is not modelled: every product and *)
(* quotient is the exact rational one.                                     *)
(***************************************************************************)
EXTENDS Integers, Sequences, FiniteSets, TLC

VARIABLES
    optCall,            \* EnergyOptimizer.optimize: the last call, arguments and result
    dayAhead,           \* EnergyOptimizer.optimizeDayAhead: the running call (loop state)
    shiftCall,          \* EnergyOptimizer.optimizeLoadShifting: the last call
    realTimeCall,       \* EnergyOptimizer.optimizeForRealTimePrice: the last call
    forecastCall,       \* EnergyForecaster.forecastNextHour: the last call
    sensitivityLevel,   \* AnomalyDetector.sensitivityLevel
    historicalBaseline, \* AnomalyDetector.historicalBaseline: Map key -> median
    detectCall,         \* AnomalyDetector.detectAnomalies: the last call
    equipmentCall,      \* AnomalyDetector.detectEquipmentAnomaly: the last application
    contextualCall,     \* AnomalyDetector.detectContextualAnomaly: the last application
    statsCall,          \* AnomalyDetector.getAnomalyStats: the last call
    app                 \* App: the component's state and what its last tick ran

vars == <<optCall, dayAhead, shiftCall, realTimeCall, forecastCall,
          sensitivityLevel, historicalBaseline, detectCall, equipmentCall,
          contextualCall, statsCall, app>>

-----------------------------------------------------------------------------
(* JavaScript numbers *)

Min(a, b) == IF a < b THEN a ELSE b
Max(a, b) == IF a > b THEN a ELSE b
Abs(a) == IF a < 0 THEN -a ELSE a

\* A number that may be NaN or infinite.
Num(v) == [kind |-> "num", val |-> v]
NaN == [kind |-> "NaN", val |-> 0]
PosInfinity == [kind |-> "+Infinity", val |-> 0]
NegInfinity == [kind |-> "-Infinity", val |-> 0]
IsNum(x) == x.kind = "num"

\* Math.round(num / den) for den > 0: the nearest integer, halves towards
\* +Infinity, i.e. floor(num/den + 1/2).
MathRound(num, den) == (2 * num + den) \div (2 * den)

\* floor(a / b * 10^digits) for b > 0, by long division
RECURSIVE DivFixed(_, _, _)
DivFixed(a, b, digits) ==
    IF digits = 0 THEN a \div b
    ELSE (a \div b) * (10 ^ digits) + DivFixed((a % b) * 10, b, digits - 1)

\* floor(Math.sqrt(m)) for 0 <= m, by bisection on lo <= sqrt(m) < hi
RECURSIVE SqrtBetween(_, _, _)
SqrtBetween(m, lo, hi) ==
    IF hi - lo <= 1 THEN lo
    ELSE LET mid == (lo + hi) \div 2
         IN  IF mid * mid <= m THEN SqrtBetween(m, mid, hi) ELSE SqrtBetween(m, lo, mid)

ISqrt(m) == SqrtBetween(m, 0, 46341)

\* values.reduce((sum, v) => sum + v, 0) over F(1), ..., F(n)
RECURSIVE SumOver(_, _)
SumOver(F(_), n) == IF n = 0 THEN 0 ELSE SumOver(F, n - 1) + F(n)

\* array.slice(-count)
SliceLast(array, count) ==
    SubSeq(array, Max(1, Len(array) - count + 1), Len(array))

NoCall == [called |-> FALSE]

-----------------------------------------------------------------------------
(* EnergyData.  timestamp is the local time in whole hours since a Sunday     *)
(* 00:00, kwh in kWh, temperature in degrees C, irradiance in W/m2, occupancy *)
(* in hundredths.                                                             *)

\* new Date(timestamp).getHours() and .getDay() (0 = Sunday)
GetHours(timestamp) == timestamp % 24
GetDay(timestamp) == (timestamp \div 24) % 7

\* Math.sin(Math.PI * k / 12) for k = 0..12 and Math.sin(Math.PI * k / 8) for
\* k = 0..8, in 1e-4, rounded to the nearest
Sin12(k) == <<0, 2588, 5000, 7071, 8660, 9659, 10000, 9659, 8660, 7071, 5000, 2588, 0>>[k + 1]
Sin8(k) == <<0, 3827, 7071, 9239, 10000, 9239, 7071, 3827, 0>>[k + 1]

-----------------------------------------------------------------------------
(* EnergyOptimizer *)

\* constructor defaults: 50 kWh battery, 0.95 round-trip efficiency
BatteryCapacity == 50000
BatteryEfficiencyPct == 95
\* 0.8 kg CO2 per kWh, in tenths
GridCarbonIntensity == 8
\* peakThreshold = 40 kWh
PeakThreshold == 40000
\* adjustedGridPrice > 0.15, in 1e-4 $/kWh
HighPriceThreshold == 1500

TimesOfUse == {"peak", "mid-peak", "off-peak"}

\* priceMultipliers, in tenths
PriceMultiplier(timeOfUse) ==
    CASE timeOfUse = "peak" -> 18
      [] timeOfUse = "mid-peak" -> 10
      [] timeOfUse = "off-peak" -> 6

\* A faulty variant of Dispatch: Step 3 forgets "remainingDemand -= batteryDischarge",
\* so the grid also serves what the battery already served.
DispatchGridIgnoresBattery(demandKwh, solarAvailableKwh, adjustedGridPrice, batteryLevel, timeOfUse) ==
    LET solarKwh == Min(solarAvailableKwh, demandKwh)
        remaining0 == demandKwh - solarKwh
        excess0 == solarAvailableKwh - solarKwh
        maxCharge == BatteryCapacity - batteryLevel
        batteryCharge == IF excess0 > 0
                         THEN Min(excess0, maxCharge) * BatteryEfficiencyPct
                         ELSE 0
        excessSolar == IF excess0 > 0
                       THEN excess0 - (batteryCharge \div BatteryEfficiencyPct)
                       ELSE excess0
        canDischarge == remaining0 > 0 /\ batteryLevel > 0
                        /\ (timeOfUse = "peak" \/ adjustedGridPrice > HighPriceThreshold)
        batteryDischarge == IF canDischarge THEN Min(remaining0, batteryLevel) ELSE 0
    IN  [solarKwh |-> solarKwh, batteryDischarge |-> batteryDischarge,
         batteryCharge |-> batteryCharge, excessSolar |-> excessSolar,
         gridKwh |-> remaining0]

\* A faulty variant of Dispatch: the battery is dispatched before solar.
DispatchBatteryFirst(demandKwh, solarAvailableKwh, adjustedGridPrice, batteryLevel, timeOfUse) ==
    LET canDischarge == demandKwh > 0 /\ batteryLevel > 0
                        /\ (timeOfUse = "peak" \/ adjustedGridPrice > HighPriceThreshold)
        batteryDischarge == IF canDischarge THEN Min(demandKwh, batteryLevel) ELSE 0
        solarKwh == Min(solarAvailableKwh, demandKwh - batteryDischarge)
        excess0 == solarAvailableKwh - solarKwh
        maxCharge == BatteryCapacity - batteryLevel
        batteryCharge == IF excess0 > 0
                         THEN Min(excess0, maxCharge) * BatteryEfficiencyPct
                         ELSE 0
        excessSolar == IF excess0 > 0
                       THEN excess0 - (batteryCharge \div BatteryEfficiencyPct)
                       ELSE excess0
    IN  [solarKwh |-> solarKwh, batteryDischarge |-> batteryDischarge,
         batteryCharge |-> batteryCharge, excessSolar |-> excessSolar,
         gridKwh |-> demandKwh - batteryDischarge - solarKwh]

\* A faulty variant of Dispatch: Step 3 discharges whenever demand remains and
\* the battery holds energy, without looking at the time of use or the price.
DispatchAlwaysDischarges(demandKwh, solarAvailableKwh, adjustedGridPrice, batteryLevel, timeOfUse) ==
    LET solarKwh == Min(solarAvailableKwh, demandKwh)
        remaining0 == demandKwh - solarKwh
        excess0 == solarAvailableKwh - solarKwh
        maxCharge == BatteryCapacity - batteryLevel
        batteryCharge == IF excess0 > 0
                         THEN Min(excess0, maxCharge) * BatteryEfficiencyPct
                         ELSE 0
        excessSolar == IF excess0 > 0
                       THEN excess0 - (batteryCharge \div BatteryEfficiencyPct)
                       ELSE excess0
        canDischarge == remaining0 > 0 /\ batteryLevel > 0
        batteryDischarge == IF canDischarge THEN Min(remaining0, batteryLevel) ELSE 0
    IN  [solarKwh |-> solarKwh, batteryDischarge |-> batteryDischarge,
         batteryCharge |-> batteryCharge, excessSolar |-> excessSolar,
         gridKwh |-> remaining0 - batteryDischarge]

\* A faulty variant of Dispatch: Step 2 charges with all the excess solar,
\* whatever room the battery has left.
DispatchChargeIgnoresHeadroom(demandKwh, solarAvailableKwh, adjustedGridPrice, batteryLevel, timeOfUse) ==
    LET solarKwh == Min(solarAvailableKwh, demandKwh)
        remaining0 == demandKwh - solarKwh
        excess0 == solarAvailableKwh - solarKwh
        batteryCharge == IF excess0 > 0 THEN excess0 * BatteryEfficiencyPct ELSE 0
        excessSolar == IF excess0 > 0
                       THEN excess0 - (batteryCharge \div BatteryEfficiencyPct)
                       ELSE excess0
        canDischarge == remaining0 > 0 /\ batteryLevel > 0
                        /\ (timeOfUse = "peak" \/ adjustedGridPrice > HighPriceThreshold)
        batteryDischarge == IF canDischarge THEN Min(remaining0, batteryLevel) ELSE 0
    IN  [solarKwh |-> solarKwh, batteryDischarge |-> batteryDischarge,
         batteryCharge |-> batteryCharge, excessSolar |-> excessSolar,
         gridKwh |-> remaining0 - batteryDischarge]

\* Steps 1-4 of optimize: the dispatch before rounding (milli-kWh; batteryCharge
\* in milli-kWh * percent, i.e. 1e-5 kWh).
Dispatch(demandKwh, solarAvailableKwh, adjustedGridPrice, batteryLevel, timeOfUse) ==
    LET \* Step 1: use available solar first
        solarKwh == Min(solarAvailableKwh, demandKwh)
        remaining0 == demandKwh - solarKwh
        \* Step 2: handle excess solar
        excess0 == solarAvailableKwh - solarKwh
        maxCharge == BatteryCapacity - batteryLevel
        batteryCharge == IF excess0 > 0
                         THEN Min(excess0, maxCharge) * BatteryEfficiencyPct
                         ELSE 0
        excessSolar == IF excess0 > 0
                       THEN excess0 - (batteryCharge \div BatteryEfficiencyPct)
                       ELSE excess0
        \* Step 3: use battery if economical
        canDischarge == remaining0 > 0 /\ batteryLevel > 0
                        /\ (timeOfUse = "peak" \/ adjustedGridPrice > HighPriceThreshold)
        batteryDischarge == IF canDischarge THEN Min(remaining0, batteryLevel) ELSE 0
        \* Step 4: use grid for remaining demand
        gridKwh == remaining0 - batteryDischarge
    IN  [solarKwh |-> solarKwh, batteryDischarge |-> batteryDischarge,
         batteryCharge |-> batteryCharge, excessSolar |-> excessSolar,
         gridKwh |-> gridKwh]

\* calculatePeakReduction, in percent as a fraction num/den (den > 0), or 0/1
calculatePeakReduction(demandKwh, solarKwh, batteryKwh) ==
    LET netDemand == demandKwh - solarKwh - batteryKwh
    IN  IF demandKwh > PeakThreshold /\ netDemand < PeakThreshold
        THEN [num |-> (demandKwh - netDemand) * 100, den |-> demandKwh]
        ELSE [num |-> 0, den |-> 1]

\* calculateGridStressReduction, rounded to 0.1 as optimize does: tenths of a
\* percent.  gridKwh / totalDemand is 0/0 = NaN for a zero demand with no
\* grid energy, and +-Infinity for a zero demand with grid energy.
calculateGridStressReduction(gridKwh, totalDemand) ==
    IF totalDemand = 0
    THEN IF gridKwh = 0 THEN NaN
         ELSE IF gridKwh > 0 THEN NegInfinity ELSE PosInfinity
    ELSE IF totalDemand > 0
         THEN Num(MathRound((totalDemand - gridKwh) * 1000, totalDemand))
         ELSE Num(MathRound((gridKwh - totalDemand) * 1000, -totalDemand))

optimize(demandKwh, solarAvailableKwh, gridPrice, batteryLevel, timeOfUse) ==
    LET adjustedGridPrice == gridPrice * PriceMultiplier(timeOfUse)
        d == Dispatch(demandKwh, solarAvailableKwh, adjustedGridPrice, batteryLevel, timeOfUse)
        renewable == d.solarKwh + d.batteryDischarge
        peak == calculatePeakReduction(demandKwh, d.solarKwh, d.batteryDischarge)
    IN  [gridKwh |-> MathRound(d.gridKwh, 10),
         solarKwh |-> MathRound(d.solarKwh, 10),
         batteryKwh |-> MathRound(d.batteryDischarge, 10),
         batteryCharge |-> MathRound(d.batteryCharge, 1000),
         excessSolar |-> MathRound(d.excessSolar, 10),
         \* milli-kWh * 1e-4 $/kWh = 1e-7 $, rounded to cents
         totalCost |-> MathRound(d.gridKwh * adjustedGridPrice, 100000),
         \* milli-kWh * tenths kg/kWh = 1e-4 kg, rounded to 0.01 kg
         carbonSaved |-> MathRound(renewable * GridCarbonIntensity, 100),
         renewablePercentage |-> IF demandKwh > 0
                                 THEN MathRound(renewable * 1000, demandKwh)
                                 ELSE 0,
         peakDemandReduction |-> MathRound(peak.num * 10, peak.den),
         gridStressReduction |-> calculateGridStressReduction(d.gridKwh, demandKwh),
         timeOfUse |-> timeOfUse,
         \* rounded to 0.001 $/kWh
         adjustedGridPrice |-> MathRound(adjustedGridPrice, 10)]


\* optimize is called with these arguments (see the units above)
OptDemands == {0, 12344, 30000, 45005, 50000}
OptSolars == {0, 10000, 30000, 30996, 60000}
OptPrices == {120, 150, 200}
OptBatteryLevels == {0, 4995, 25000, 50000}

\* one call of optimize is followed
OptimizeCall ==
    /\ ~optCall.called
    /\ \E demandKwh \in OptDemands, solarAvailableKwh \in OptSolars,
       gridPrice \in OptPrices, batteryLevel \in OptBatteryLevels,
          timeOfUse \in TimesOfUse :
            optCall' = [called |-> TRUE,
                        demandKwh |-> demandKwh,
                        solarAvailableKwh |-> solarAvailableKwh,
                        gridPrice |-> gridPrice,
                        batteryLevel |-> batteryLevel,
                        timeOfUse |-> timeOfUse,
                        result |-> optimize(demandKwh, solarAvailableKwh, gridPrice,
                                            batteryLevel, timeOfUse)]
    /\ UNCHANGED <<dayAhead, shiftCall, realTimeCall, forecastCall, sensitivityLevel, historicalBaseline, detectCall, equipmentCall,
                   contextualCall, statsCall, app>>

-----------------------------------------------------------------------------
(* EnergyOptimizer.optimizeDayAhead *)

\* the longest schedule the model passes to optimizeDayAhead
MaxPeriods == 3

SeqsUpTo(S, n) == UNION {[1..k -> S] : k \in 0..n}

\* one period of a schedule: demands[i], solarForecasts[i], gridPrices[i],
\* timeOfUseSchedule[i]
Periods ==
    { [demand |-> 10000, solar |-> 30996, price |-> 120, tou |-> "mid-peak"],
      [demand |-> 50000, solar |-> 30000, price |-> 120, tou |-> "peak"],
      [demand |-> 50000, solar |-> 10000, price |-> 120, tou |-> "off-peak"],
      [demand |-> 0,     solar |-> 60000, price |-> 120, tou |-> "mid-peak"],
      [demand |-> 12344, solar |-> 0,     price |-> 200, tou |-> "mid-peak"] }

\* initialBatteryLevel: any number, also outside [0, capacity]
InitialBatteryLevels == {-5000, 0, 10006, 25000, 50000, 60004}

\* A faulty variant of ClampLevel: the lower bound Math.max(0, .) is missing.
ClampNoFloor(level) == Min(BatteryCapacity, level)

\* A faulty variant of ClampLevel: the upper bound Math.min(capacity, .) is
\* missing.
ClampNoCeiling(level) == Max(0, level)

\* Math.max(0, Math.min(this.batteryCapacity, x))
ClampLevel(level) == Max(0, Min(BatteryCapacity, level))

DayAheadCall ==
    /\ dayAhead.pc = "idle"
    /\ \E periods \in SeqsUpTo(Periods, MaxPeriods),
          initialBatteryLevel \in InitialBatteryLevels :
            dayAhead' = [pc |-> "loop",
                         periods |-> periods,
                         initialBatteryLevel |-> initialBatteryLevel,
                         i |-> 1,
                         batteryLevel |-> initialBatteryLevel,
                         entered |-> << >>,
                         results |-> << >>]
    /\ UNCHANGED <<optCall, shiftCall, realTimeCall, forecastCall, sensitivityLevel, historicalBaseline, detectCall, equipmentCall,
                   contextualCall, statsCall, app>>

\* one iteration of the for loop
DayAheadStep ==
    /\ dayAhead.pc = "loop"
    /\ dayAhead.i <= Len(dayAhead.periods)
    /\ LET p == dayAhead.periods[dayAhead.i]
           result == optimize(p.demand, p.solar, p.price, dayAhead.batteryLevel, p.tou)
           \* result fields are centi-kWh, the level milli-kWh
           batteryLevel == ClampLevel(dayAhead.batteryLevel - 10 * result.batteryKwh
                                      + 10 * result.batteryCharge)
       IN  dayAhead' = [dayAhead EXCEPT
                          !.i = @ + 1,
                          !.batteryLevel = batteryLevel,
                          !.entered = Append(@, dayAhead.batteryLevel),
                          !.results = Append(@, [result |-> result,
                                                 batteryLevel |-> MathRound(batteryLevel, 10)])]
    /\ UNCHANGED <<optCall, shiftCall, realTimeCall, forecastCall, sensitivityLevel, historicalBaseline, detectCall, equipmentCall,
                   contextualCall, statsCall, app>>

\* the loop ends and results is returned
DayAheadReturn ==
    /\ dayAhead.pc = "loop"
    /\ dayAhead.i > Len(dayAhead.periods)
    /\ dayAhead' = [dayAhead EXCEPT !.pc = "done"]
    /\ UNCHANGED <<optCall, shiftCall, realTimeCall, forecastCall, sensitivityLevel, historicalBaseline, detectCall, equipmentCall,
                   contextualCall, statsCall, app>>

-----------------------------------------------------------------------------
(* EnergyOptimizer.optimizeLoadShifting *)

Undefined == [kind |-> "undefined", val |-> 0]

\* the most flexible loads, and the longest time window, the model passes
MaxLoads == 2
MaxWindow == 3

\* array[index] of JavaScript for a sequence (0-based); Undefined out of range
At(array, index) ==
    IF IsNum(index) /\ index.val \in 0..(Len(array) - 1)
    THEN Num(array[index.val + 1])
    ELSE Undefined

\* window[0]
FirstHour(timeWindow) == IF Len(timeWindow) > 0 THEN Num(timeWindow[1]) ELSE Undefined

\* calculateLoadCost: kWh in milli-kWh, prices in milli-$/kWh, cost in 1e-6 $.
\* A read past the end of an array is undefined and makes the cost NaN.
calculateLoadCost(loadKwh, hour, demands, solarForecasts, gridPrices) ==
    LET demand == At(demands, hour)
        solarAvailable == At(solarForecasts, hour)
        gridPrice == At(gridPrices, hour)
    IN  IF IsNum(demand) /\ IsNum(solarAvailable) /\ IsNum(gridPrice)
        THEN Num(Max(0, demand.val + loadKwh - solarAvailable.val) * gridPrice.val)
        ELSE NaN

\* A faulty variant of LessThan: <= for <, so the last of equal hours wins.
LessOrEqual(cost, bestCost) ==
    /\ cost.kind # "NaN" /\ bestCost.kind # "NaN"
    /\ \/ IsNum(cost) /\ IsNum(bestCost) /\ cost.val <= bestCost.val
       \/ IsNum(cost) /\ bestCost.kind = "+Infinity"

\* A faulty variant of LessThan: > for <, the dearest hour is kept.
GreaterThan(cost, bestCost) ==
    /\ cost.kind # "NaN" /\ bestCost.kind # "NaN"
    /\ \/ IsNum(cost) /\ IsNum(bestCost) /\ cost.val > bestCost.val
       \/ IsNum(cost) /\ bestCost.kind = "+Infinity"

\* cost < bestCost of JavaScript (false when either side is NaN)
LessThan(cost, bestCost) ==
    /\ cost.kind # "NaN" /\ bestCost.kind # "NaN"
    /\ \/ IsNum(cost) /\ IsNum(bestCost) /\ cost.val < bestCost.val
       \/ IsNum(cost) /\ bestCost.kind = "+Infinity"
       \/ cost.kind = "-Infinity" /\ bestCost.kind # "-Infinity"

\* load.timeWindow.forEach(hour => ...): the best hour and cost after the
\* hours from position k on, starting from best
RECURSIVE FindBest(_, _, _, _, _, _, _)
FindBest(loadKwh, timeWindow, k, best, demands, solarForecasts, gridPrices) ==
    IF k > Len(timeWindow) THEN best
    ELSE LET hour == timeWindow[k]
             cost == calculateLoadCost(loadKwh, Num(hour), demands, solarForecasts, gridPrices)
             next == IF hour < Len(demands) /\ LessThan(cost, best.bestCost)
                     THEN [bestHour |-> Num(hour), bestCost |-> cost]
                     ELSE best
         IN  FindBest(loadKwh, timeWindow, k + 1, next, demands, solarForecasts, gridPrices)

\* A faulty variant of Subtract: bestCost - originalCost.
SubtractReversed(a, b) ==
    IF a.kind = "NaN" \/ b.kind = "NaN" THEN NaN
    ELSE IF IsNum(a) /\ IsNum(b) THEN Num(b.val - a.val)
    ELSE IF IsNum(b) THEN (IF a.kind = "+Infinity" THEN NegInfinity ELSE PosInfinity)
    ELSE IF IsNum(a) THEN b
    ELSE IF a.kind = b.kind THEN NaN ELSE b

\* originalCost - bestCost
Subtract(a, b) ==
    IF a.kind = "NaN" \/ b.kind = "NaN" THEN NaN
    ELSE IF IsNum(a) /\ IsNum(b) THEN Num(a.val - b.val)
    ELSE IF IsNum(a) THEN (IF b.kind = "+Infinity" THEN NegInfinity ELSE PosInfinity)
    ELSE IF IsNum(b) THEN a
    ELSE IF a.kind = b.kind THEN NaN ELSE a

\* totalSavings += savings
Add(a, b) ==
    IF a.kind = "NaN" \/ b.kind = "NaN" THEN NaN
    ELSE IF IsNum(a) /\ IsNum(b) THEN Num(a.val + b.val)
    ELSE IF IsNum(a) THEN b
    ELSE IF IsNum(b) THEN a
    ELSE IF a.kind = b.kind THEN a ELSE NaN

\* Math.round(x * 100) / 100 of an amount in 1e-6 $: cents
RoundCents(x) == IF IsNum(x) THEN Num(MathRound(x.val, 10000)) ELSE x

\* the body of flexibleLoads.forEach: the entry pushed and the unrounded savings
ShiftLoad(load, demands, solarForecasts, gridPrices) ==
    LET best == FindBest(load.kwh, load.timeWindow, 1,
                         [bestHour |-> FirstHour(load.timeWindow), bestCost |-> PosInfinity],
                         demands, solarForecasts, gridPrices)
        originalCost == calculateLoadCost(load.kwh, FirstHour(load.timeWindow),
                                          demands, solarForecasts, gridPrices)
        savings == Subtract(originalCost, best.bestCost)
    IN  [entry |-> [name |-> load.name,
                    originalHour |-> FirstHour(load.timeWindow),
                    optimalHour |-> best.bestHour,
                    savings |-> RoundCents(savings)],
         savings |-> savings]

RECURSIVE SumSavings(_, _, _, _, _)
SumSavings(flexibleLoads, k, demands, solarForecasts, gridPrices) ==
    IF k = 0 THEN Num(0)
    ELSE Add(SumSavings(flexibleLoads, k - 1, demands, solarForecasts, gridPrices),
             ShiftLoad(flexibleLoads[k], demands, solarForecasts, gridPrices).savings)

optimizeLoadShifting(flexibleLoads, demands, solarForecasts, gridPrices) ==
    [shiftedLoads |-> [k \in 1..Len(flexibleLoads) |->
                          ShiftLoad(flexibleLoads[k], demands, solarForecasts, gridPrices).entry],
     totalSavings |-> RoundCents(SumSavings(flexibleLoads, Len(flexibleLoads),
                                            demands, solarForecasts, gridPrices))]

\* hourly arrays of a planning horizon of 3 hours (0, 1, 2) or 2 hours (0, 1)
ShiftProfiles ==
    { [demands |-> <<20000, 20000, 20000>>, solarForecasts |-> <<0, 0, 30000>>,
       gridPrices |-> <<200, 120, 120>>],
      [demands |-> <<10000, 10000, 12345>>, solarForecasts |-> <<0, 0, 0>>,
       gridPrices |-> <<120, 120, 121>>],
      [demands |-> <<20000, 20000>>, solarForecasts |-> <<0, 0>>,
       gridPrices |-> <<200, 120>>] }

\* hours a window may name: hour 2 is past the end of the 2-hour arrays
ShiftHours == 0..2

\* time windows: no hour twice, in any order, the empty window included
ShiftWindows ==
    {w \in SeqsUpTo(ShiftHours, MaxWindow) :
        \A a, b \in 1..Len(w) : a # b => w[a] # w[b]}

ShiftLoads == {[name |-> "load", kwh |-> 5000, timeWindow |-> w] : w \in ShiftWindows}

\* one call of optimizeLoadShifting is followed
LoadShiftingCall ==
    /\ ~shiftCall.called
    /\ \E flexibleLoads \in SeqsUpTo(ShiftLoads, MaxLoads), profile \in ShiftProfiles :
            shiftCall' = [called |-> TRUE,
                          flexibleLoads |-> flexibleLoads,
                          demands |-> profile.demands,
                          solarForecasts |-> profile.solarForecasts,
                          gridPrices |-> profile.gridPrices,
                          result |-> optimizeLoadShifting(flexibleLoads, profile.demands,
                                         profile.solarForecasts, profile.gridPrices)]
    /\ UNCHANGED <<optCall, dayAhead, realTimeCall, forecastCall, sensitivityLevel, historicalBaseline, detectCall, equipmentCall,
                   contextualCall, statsCall, app>>

-----------------------------------------------------------------------------
(* EnergyOptimizer.optimizeForRealTimePrice.  Prices in 1e-3 $/kWh, energies *)
(* in milli-kWh, potentialSavings in 1e-7 $.                                 *)

\* currentPrice / averagePrice > num / den, for den > 0: x/0 is +-Infinity
\* (NaN for 0/0, which compares false)
PriceRatioAbove(currentPrice, averagePrice, num, den) ==
    IF averagePrice > 0 THEN den * currentPrice > num * averagePrice
    ELSE IF averagePrice < 0 THEN den * currentPrice < num * averagePrice
    ELSE currentPrice > 0

\* currentPrice / averagePrice < num / den
PriceRatioBelow(currentPrice, averagePrice, num, den) ==
    IF averagePrice > 0 THEN den * currentPrice < num * averagePrice
    ELSE IF averagePrice < 0 THEN den * currentPrice > num * averagePrice
    ELSE currentPrice < 0

\* batteryLevel > 10 (kWh)
MinBatteryToUse == 10000

\* A faulty variant of optimizeForRealTimePrice: the battery test is
\* batteryLevel >= 10.
optimizeForRealTimePriceAtLeast10(currentPrice, averagePrice, demandKwh, solarKwh, batteryLevel) ==
    IF PriceRatioAbove(currentPrice, averagePrice, 15, 10) /\ batteryLevel >= MinBatteryToUse
    THEN [action |-> "use_battery", potentialSavings |-> demandKwh * currentPrice * 7]
    ELSE IF PriceRatioBelow(currentPrice, averagePrice, 7, 10) /\ solarKwh > demandKwh
    THEN [action |-> "charge_battery",
          potentialSavings |-> (solarKwh - demandKwh) * (averagePrice - currentPrice) * 10]
    ELSE IF PriceRatioAbove(currentPrice, averagePrice, 12, 10)
    THEN [action |-> "reduce_load", potentialSavings |-> demandKwh * currentPrice]
    ELSE [action |-> "maintain", potentialSavings |-> 0]

\* the returned action and potentialSavings (recommendation is a fixed text
\* per action)
optimizeForRealTimePrice(currentPrice, averagePrice, demandKwh, solarKwh, batteryLevel) ==
    IF PriceRatioAbove(currentPrice, averagePrice, 15, 10) /\ batteryLevel > MinBatteryToUse
    THEN [action |-> "use_battery", potentialSavings |-> demandKwh * currentPrice * 7]
    ELSE IF PriceRatioBelow(currentPrice, averagePrice, 7, 10) /\ solarKwh > demandKwh
    THEN [action |-> "charge_battery",
          potentialSavings |-> (solarKwh - demandKwh) * (averagePrice - currentPrice) * 10]
    ELSE IF PriceRatioAbove(currentPrice, averagePrice, 12, 10)
    THEN [action |-> "reduce_load", potentialSavings |-> demandKwh * currentPrice]
    ELSE [action |-> "maintain", potentialSavings |-> 0]

\* arguments; for these prices the floating-point quotient compares with 1.5,
\* 0.7 and 1.2 as the exact one does
RealTimeCurrentPrices == {0, 50, 84, 120, 144, 150, 180, 200, 300}
RealTimeAveragePrices == {0, 100, 120}
RealTimeDemands == {0, 30000}
RealTimeSolars == {0, 30000, 60000}
RealTimeBatteryLevels == {5000, 10000, 25000}

\* one call of optimizeForRealTimePrice is followed
RealTimePriceCall ==
    /\ ~realTimeCall.called
    /\ \E currentPrice \in RealTimeCurrentPrices, averagePrice \in RealTimeAveragePrices,
          demandKwh \in RealTimeDemands, solarKwh \in RealTimeSolars,
          batteryLevel \in RealTimeBatteryLevels :
            realTimeCall' = [called |-> TRUE,
                             currentPrice |-> currentPrice,
                             averagePrice |-> averagePrice,
                             demandKwh |-> demandKwh,
                             solarKwh |-> solarKwh,
                             batteryLevel |-> batteryLevel,
                             result |-> optimizeForRealTimePrice(currentPrice, averagePrice,
                                            demandKwh, solarKwh, batteryLevel)]
    /\ UNCHANGED <<optCall, dayAhead, shiftCall, forecastCall, sensitivityLevel, historicalBaseline, detectCall, equipmentCall,
                   contextualCall, statsCall, app>>

-----------------------------------------------------------------------------
(* EnergyForecaster.  Forecasts are fixed-point: demand sub-forecasts and     *)
(* solar in 1e-4 kWh (floor), nextHourDemand in 1e-6 kWh, scores in 1e-4,     *)
(* confidence in 1e-5.                                                        *)

\* data.length < 48
MinHistory == 48

\* weights of the ensemble, in percent
WeightHistorical == 35
WeightTrend == 25
WeightWeather == 25
WeightOccupancy == 15

\* historicalPatternForecast.  The weights 1.1^index are taken exactly, as
\* 11^index * 10^(k-1-index) over the k <= 10 last similar periods.
historicalPatternForecast(data) ==
    LET latest == data[Len(data)]
        hour == GetHours(latest.timestamp)
        dayOfWeek == GetDay(latest.timestamp)
        similarPeriods == SelectSeq(data, LAMBDA d :
                              GetHours(d.timestamp) = hour /\ GetDay(d.timestamp) = dayOfWeek)
        sameHour == SelectSeq(data, LAMBDA d : GetHours(d.timestamp) = hour)
        last10 == SliceLast(similarPeriods, 10)
        k == Len(last10)
        weight(index) == (11 ^ index) * (10 ^ (k - 1 - index))
        weightedSum == SumOver(LAMBDA j : last10[j].kwh * weight(j - 1), k)
        totalWeight == SumOver(LAMBDA j : weight(j - 1), k)
    IN  IF Len(similarPeriods) < 3
        THEN IF Len(sameHour) > 0
             THEN DivFixed(SumOver(LAMBDA j : sameHour[j].kwh, Len(sameHour)), Len(sameHour), 4)
             ELSE latest.kwh * 10000
        ELSE DivFixed(weightedSum, totalWeight, 4)

\* trendBasedForecast: least squares over the last 24 samples, x = 0..n-1,
\* predicted at x = n.  intercept + slope * n is, exactly,
\* (sumY * (n*sumXX - sumX*sumX) + (n*n - sumX) * (n*sumXY - sumX*sumY))
\*   / (n * (n*sumXX - sumX*sumX)); 0/0 = NaN for a single sample.
trendBasedForecast(data) ==
    LET recentData == SliceLast(data, 24)
        n == Len(recentData)
        sumX == SumOver(LAMBDA j : j - 1, n)
        sumY == SumOver(LAMBDA j : recentData[j].kwh, n)
        sumXY == SumOver(LAMBDA j : (j - 1) * recentData[j].kwh, n)
        sumXX == SumOver(LAMBDA j : (j - 1) * (j - 1), n)
        den == n * sumXX - sumX * sumX
        slopeNum == n * sumXY - sumX * sumY
    IN  IF den = 0 THEN NaN
        ELSE Num(DivFixed(sumY * den + (n * n - sumX) * slopeNum, n * den, 4))

\* weatherBasedForecast
weatherBasedForecast(data) ==
    LET latest == data[Len(data)]
        recent == SliceLast(data, 48)
        similarWeather == SelectSeq(recent, LAMBDA d :
                              /\ Abs(d.temperature - latest.temperature) < 3
                              /\ Abs(d.irradiance - latest.irradiance) < 100)
    IN  IF Len(similarWeather) < 3
        THEN latest.kwh * 10000
        ELSE DivFixed(SumOver(LAMBDA j : similarWeather[j].kwh, Len(similarWeather)),
                      Len(similarWeather), 4)

\* occupancyBasedForecast: nextOccupancy in 1e-4, then baseLoad 25 + 15 * occupancy
occupancyBasedForecast(data, hour, isWeekend) ==
    LET nextHour == (hour + 1) % 24
        nextOccupancy ==
            IF ~isWeekend /\ nextHour >= 7 /\ nextHour <= 19
            THEN Min(10000, 1000 + (9 * Sin12(nextHour - 7)) \div 10)
            ELSE IF isWeekend /\ nextHour >= 9 /\ nextHour <= 17
                 THEN 3000 + (2 * Sin8(nextHour - 9)) \div 10
                 ELSE 0
    IN  250000 + 15 * nextOccupancy

\* forecastSolarGeneration, in 1e-4 kWh
forecastSolarGeneration(data) ==
    LET latest == data[Len(data)]
        nextHour == (GetHours(latest.timestamp) + 1) % 24
        currentIrradiance == latest.irradiance
        timeOfDayFactor == Sin12(nextHour - 6)
        \* currentIrradiance * 0.8 + 800 * timeOfDayFactor * 0.2, in 1e-4 W/m2
        persistence == 8000 * currentIrradiance + 160 * timeOfDayFactor
        predictedIrradiance == IF currentIrradiance < 200
                               THEN (persistence * 7) \div 10
                               ELSE persistence
        \* Math.max(0.7, 1 - (temperature - 25) * 0.004), in 1e-3
        temperatureDerating == Max(700, 1000 - (latest.temperature - 25) * 4)
    IN  IF nextHour < 6 \/ nextHour > 18
        THEN 0
        \* (irradiance / 1000) * panelArea 100 * panelEfficiency 0.18 * derating
        ELSE (((predictedIrradiance * 18) \div 1000) * temperatureDerating) \div 1000

\* calculateRecentVariability: the mean absolute step, in 1e-4 kWh
calculateRecentVariability(data) ==
    IF Len(data) < 2 THEN 0
    ELSE DivFixed(SumOver(LAMBDA j : Abs(data[j + 1].kwh - data[j].kwh), Len(data) - 1),
                  Len(data) - 1, 4)

\* calculateWeatherConsistency, in 1e-4
calculateWeatherConsistency(data) ==
    IF Len(data) < 6 THEN 5000
    ELSE LET recent6 == SliceLast(data, 6)
             tempChanges == SumOver(LAMBDA j :
                                Abs(recent6[j + 1].temperature - recent6[j].temperature), 5)
             irradianceChanges == SumOver(LAMBDA j :
                                Abs(recent6[j + 1].irradiance - recent6[j].irradiance), 5)
             \* 1 - avgTempChange / 10 and 1 - avgIrradianceChange / 500
             tempConsistency == Max(0, 10000 - DivFixed(tempChanges, 50, 4))
             irradianceConsistency == Max(0, 10000 - DivFixed(irradianceChanges, 2500, 4))
         IN  (tempConsistency + irradianceConsistency) \div 2

\* calculateConfidence, in 1e-5.  With mean = sum/n and variance = q/(n*n),
\* q = n * sum(v^2) - sum^2, the coefficient of variation sqrt(variance)/mean is
\* sqrt(q)/sum: 0/0 = NaN when the values sum to 0 (all zero, for values >= 0),
\* a division by zero (+-Infinity) when they sum to 0 and differ.
calculateConfidence(data) ==
    LET recent == SliceLast(data, 48)
        n == Len(recent)
        sum == SumOver(LAMBDA j : recent[j].kwh, n)
        q == n * SumOver(LAMBDA j : recent[j].kwh * recent[j].kwh, n) - sum * sum
        \* sqrt(q) / sum in 1e-4, the root taken to one decimal
        coefficientOfVariation == DivFixed(ISqrt(100 * q), 10 * sum, 4)
        stabilityScore == Max(0, 10000 - coefficientOfVariation)
        qualityScore == DivFixed(n, 48, 4)
        consistencyScore == 10000 - calculateRecentVariability(recent) \div 100
        weatherScore == calculateWeatherConsistency(recent)
    IN  IF sum = 0
        THEN IF q = 0 THEN NaN ELSE Num(2 * qualityScore + 3 * consistencyScore + 2 * weatherScore)
        ELSE IF sum < 0
             THEN Num(3 * (10000 + DivFixed(ISqrt(100 * q), -10 * sum, 4))
                      + 2 * qualityScore + 3 * consistencyScore + 2 * weatherScore)
             ELSE Num(3 * stabilityScore + 2 * qualityScore
                      + 3 * consistencyScore + 2 * weatherScore)

\* Math.min(0.98, Math.max(0.65, confidence)): NaN stays NaN
ClampConfidence(confidence) ==
    IF IsNum(confidence) THEN Num(Min(98000, Max(65000, confidence.val))) ELSE confidence

\* A faulty variant of MinHistoryMet: the history may be one sample short.
MinHistoryMetOffByOne(data) == Len(data) >= MinHistory - 1

\* A faulty variant of MinHistoryMet: ten times the history is asked for.
MinHistoryMetTenfold(data) == Len(data) >= 10 * MinHistory

\* the negation of the guard "data.length < 48"
MinHistoryMet(data) == Len(data) >= MinHistory

\* forecastNextHour: throws below 48 samples, else the ForecastResult
forecastNextHour(data) ==
    IF ~MinHistoryMet(data)
    THEN [threw |-> TRUE,
          message |-> "Need at least 48 hours of data for accurate forecasting"]
    ELSE LET latest == data[Len(data)]
             hour == GetHours(latest.timestamp)
             dayOfWeek == GetDay(latest.timestamp)
             isWeekend == dayOfWeek = 0 \/ dayOfWeek = 6
             historicalForecast == historicalPatternForecast(data)
             trendForecast == trendBasedForecast(data)
             weatherForecast == weatherBasedForecast(data)
             occupancyForecast == occupancyBasedForecast(data, hour, isWeekend)
             nextHourDemand ==
                 IF IsNum(trendForecast)
                 THEN Num(WeightHistorical * historicalForecast
                          + WeightTrend * trendForecast.val
                          + WeightWeather * weatherForecast
                          + WeightOccupancy * occupancyForecast)
                 ELSE NaN
             solarAvailable == forecastSolarGeneration(data)
             confidence == calculateConfidence(data)
         IN  [threw |-> FALSE,
              \* Math.max(5, NaN) is NaN
              nextHourDemand |-> IF IsNum(nextHourDemand)
                                 THEN Num(Max(5000000, nextHourDemand.val))
                                 ELSE NaN,
              solarAvailable |-> Max(0, solarAvailable),
              confidence |-> ClampConfidence(confidence)]

\* the longest history the model passes to forecastNextHour
MaxHistoryLen == 50

\* Histories.  A history of len samples starts at hour `start` and has one
\* sample every `interval` hours (generateSyntheticData's hoursInterval).
\* Irradiance follows the hour of the day; kwh and temperature follow a shape.
HistoryShapes == {"zero", "flat", "weekly", "falling"}

ShapeKwh(shape, j, len) ==
    CASE shape = "zero" -> 0
      [] shape = "flat" -> 30
      [] shape = "weekly" -> 10 + 10 * (j % 7)
      [] shape = "falling" -> Max(0, 4 * (len - j))

ShapeTemperature(shape, j) ==
    CASE shape = "zero" -> 20
      [] shape = "flat" -> 20
      [] shape = "weekly" -> 15 + 10 * (j % 2)
      [] shape = "falling" -> 40

History(len, start, interval, shape) ==
    [j \in 1..len |->
        LET timestamp == start + (j - 1) * interval
            hour == GetHours(timestamp)
        IN  [timestamp |-> timestamp,
             kwh |-> ShapeKwh(shape, j, len),
             temperature |-> ShapeTemperature(shape, j),
             irradiance |-> IF hour >= 6 /\ hour <= 18 THEN 100 + 50 * Abs(12 - hour) ELSE 0,
             occupancy |-> IF hour >= 8 /\ hour <= 18 THEN 80 ELSE 0]]

\* first timestamps: Sunday 00:00, Monday 09:00, Friday 17:00
HistoryStarts == {0, 33, 137}
\* hourly samples, or one sample every 14 hours (the same hour of the same day
\* of the week every 12 samples)
HistoryIntervals == {1, 14}

\* one call of forecastNextHour is followed
ForecastCall ==
    /\ ~forecastCall.called
    /\ \E len \in 0..MaxHistoryLen, start \in HistoryStarts,
          interval \in HistoryIntervals, shape \in HistoryShapes :
            LET data == History(len, start, interval, shape)
            IN  forecastCall' = [called |-> TRUE,
                                 data |-> data,
                                 result |-> forecastNextHour(data)]
    /\ UNCHANGED <<optCall, dayAhead, shiftCall, realTimeCall, sensitivityLevel, historicalBaseline, detectCall, equipmentCall,
                   contextualCall, statsCall, app>>

-----------------------------------------------------------------------------
(* AnomalyDetector.  A sub-detector's result is its isAnomaly, severity and   *)
(* type (timestamp and value are the sample's own); a missing type is         *)
(* "undefined".  Confidence is in 1/600 (0.95 = 570, 0.98 = 588).             *)

SensitivityLevels == {"low", "medium", "high"}

\* thresholds[this.sensitivityLevel], in tenths
Thresholds(sensitivity) ==
    CASE sensitivity = "low" -> [high |-> 20, medium |-> 25, low |-> 30]
      [] sensitivity = "medium" -> [high |-> 18, medium |-> 22, low |-> 28]
      [] sensitivity = "high" -> [high |-> 15, medium |-> 20, low |-> 25]

\* `${dt.getDay()}-${dt.getHours()}`
BaselineKey(timestamp) == <<GetDay(timestamp), GetHours(timestamp)>>

\* array.sort((a, b) => a - b): insertion of v into an ascending sequence
RECURSIVE InsertAsc(_, _)
InsertAsc(sorted, v) ==
    IF sorted = << >> THEN <<v>>
    ELSE IF v < sorted[1] THEN <<v>> \o sorted
    ELSE <<sorted[1]>> \o InsertAsc(Tail(sorted), v)

RECURSIVE SortAsc(_)
SortAsc(values) ==
    IF values = << >> THEN << >>
    ELSE InsertAsc(SortAsc(SubSeq(values, 1, Len(values) - 1)), values[Len(values)])

Kwh(data) == [j \in 1..Len(data) |-> data[j].kwh]

\* the keys of a history, and the median the code takes of a key's values:
\* values[Math.floor(values.length / 2)] of the sorted values
HistoryKeys(data) == {BaselineKey(data[j].timestamp) : j \in 1..Len(data)}

BucketMedian(data, key) ==
    LET values == SortAsc(Kwh(SelectSeq(data, LAMBDA d : BaselineKey(d.timestamp) = key)))
    IN  values[(Len(values) \div 2) + 1]

\* A faulty variant of buildHistoricalBaseline: an entry the map already has
\* is kept instead of being set to the median of the new data.
buildHistoricalBaselineKeepsEntries(baseline, data) ==
    [key \in (DOMAIN baseline) \union HistoryKeys(data) |->
        IF key \in DOMAIN baseline THEN baseline[key] ELSE BucketMedian(data, key)]

\* buildHistoricalBaseline: the map after the call.  this.historicalBaseline
\* is set for every key of data; nothing is deleted.
buildHistoricalBaseline(baseline, data) ==
    [key \in (DOMAIN baseline) \union HistoryKeys(data) |->
        IF key \in HistoryKeys(data) THEN BucketMedian(data, key) ELSE baseline[key]]

\* zScore > threshold, for threshold = t10 / 10, decided exactly.
\* With n values of sum s and q = n * sum(v^2) - s^2 (so mean = s/n and
\* stdDev = sqrt(q)/n), and d = |n * current - s|:
\*     |current - mean| / (stdDev + 0.001) > t10/10
\* <=> 10000 * d - n * t10 > 1000 * sqrt(t10^2 * q).
\* With a the left side, m = t10^2 * q and r = floor(sqrt(m)): false when a <=
\* 1000 r, true when a >= 1000 (r + 1), and for a = 1000 r + c, 0 < c < 1000,
\* a^2 > 10^6 m <=> c^2 > 1000 * (1000 * (m - r^2) - 2 r c).
ZScoreExceeds(current, values, t10) ==
    LET n == Len(values)
        s == SumOver(LAMBDA j : values[j], n)
        q == n * SumOver(LAMBDA j : values[j] * values[j], n) - s * s
        a == 10000 * Abs(n * current - s) - n * t10
        m == t10 * t10 * q
        r == ISqrt(m)
        c == a - 1000 * r
        w == 1000 * (m - r * r) - 2 * r * c
    IN  /\ n > 0
        /\ a > 1000 * r
        /\ \/ a >= 1000 * (r + 1)
           \/ w <= 0
           \/ w < 999 /\ c * c > 1000 * w

detectStatisticalAnomaly(sensitivity, current, window) ==
    LET values == Kwh(window)
        threshold == Thresholds(sensitivity)
        sum == SumOver(LAMBDA j : values[j], Len(values))
        isHigh == ZScoreExceeds(current.kwh, values, threshold.high)
        isMedium == ZScoreExceeds(current.kwh, values, threshold.medium)
        isLow == ZScoreExceeds(current.kwh, values, threshold.low)
    IN  [isAnomaly |-> isHigh \/ isMedium \/ isLow,
         severity |-> IF isHigh THEN "high"
                      ELSE IF isMedium THEN "medium"
                      ELSE "low",
         \* current.kwh > mean
         type |-> IF Len(values) > 0 /\ Len(values) * current.kwh > sum
                  THEN "spike" ELSE "drop"]

NotAnomalous == [isAnomaly |-> FALSE, severity |-> "low", type |-> "undefined"]

\* detectPatternAnomaly: !expectedValue holds for a missing entry and for 0;
\* deviation = |kwh - expected| / expected, compared in tenths
detectPatternAnomaly(baseline, current) ==
    LET key == BaselineKey(current.timestamp)
        expectedValue == baseline[key]
        exceeds(t10) == expectedValue > 0
                        /\ 10 * Abs(current.kwh - expectedValue) > t10 * expectedValue
    IN  IF key \notin DOMAIN baseline \/ expectedValue = 0
        THEN NotAnomalous
        ELSE [isAnomaly |-> exceeds(2),
              severity |-> IF exceeds(5) THEN "high"
                           ELSE IF exceeds(3) THEN "medium"
                           ELSE "low",
              type |-> "pattern"]

\* calculateExpectedRange, doubled (so that 1.5 * iqr is whole)
calculateExpectedRange(data) ==
    LET values == SortAsc(Kwh(data))
        q1 == values[(Len(values) \div 4) + 1]
        q3 == values[((3 * Len(values)) \div 4) + 1]
        iqr == q3 - q1
    IN  [min2 |-> 2 * q1 - 3 * iqr, max2 |-> 2 * q3 + 3 * iqr]

\* a / b > t100 / 100 for a >= 0: a/0 is Infinity (NaN for 0/0, never greater)
RatioExceeds(a, b, t100) ==
    IF b = 0 THEN a > 0
    ELSE IF b < 0 THEN FALSE
    ELSE 100 * a > t100 * b

detectContextualAnomaly(current, window) ==
    LET hour == GetHours(current.timestamp)
        isBusinessHour == hour >= 8 /\ hour <= 18
        similarConditions ==
            SelectSeq(window, LAMBDA d :
                LET dhour == GetHours(d.timestamp)
                    disBusinessHour == dhour >= 8 /\ dhour <= 18
                IN  /\ Abs(d.temperature - current.temperature) < 5
                    /\ Abs(d.occupancy - current.occupancy) < 20
                    /\ isBusinessHour = disBusinessHour)
        expectedRange == calculateExpectedRange(similarConditions)
        isOutsideRange == 2 * current.kwh < expectedRange.min2
                          \/ 2 * current.kwh > expectedRange.max2
        \* deviation = Math.min(|kwh - min| / min, |kwh - max| / max) > t
        deviationExceeds(t100) ==
            /\ RatioExceeds(Abs(2 * current.kwh - expectedRange.min2),
                            expectedRange.min2, t100)
            /\ RatioExceeds(Abs(2 * current.kwh - expectedRange.max2),
                            expectedRange.max2, t100)
    IN  IF Len(similarConditions) < 3
        THEN NotAnomalous
        ELSE [isAnomaly |-> isOutsideRange,
              severity |-> IF isOutsideRange /\ deviationExceeds(40) THEN "high"
                           ELSE IF isOutsideRange /\ deviationExceeds(25) THEN "medium"
                           ELSE "low",
              type |-> "pattern"]

\* A faulty variant of detectEquipmentAnomaly: the spike threshold is 4 times
\* the recent average instead of 2 times.
detectEquipmentAnomalySpike4(current, recentData) ==
    LET recentValues == Kwh(recentData)
        n == Len(recentValues)
        sum == SumOver(LAMBDA j : recentValues[j], n)
        all == Append(recentValues, current.kwh)
    IN  IF n < 3 THEN NotAnomalous
        ELSE IF 10 * n * current.kwh < 4 * sum
        THEN [isAnomaly |-> TRUE, severity |-> "high", type |-> "drop"]
        ELSE IF n * current.kwh > 4 * sum
        THEN [isAnomaly |-> TRUE, severity |-> "high", type |-> "spike"]
        ELSE IF \/ \A j \in 1..Len(all) : 10 * n * all[j] > 13 * sum
                \/ \A j \in 1..Len(all) : 10 * n * all[j] < 7 * sum
        THEN [isAnomaly |-> TRUE, severity |-> "medium", type |-> "sustained"]
        ELSE NotAnomalous

\* A faulty variant of detectEquipmentAnomaly: 2 trailing samples are enough.
detectEquipmentAnomalyFrom2(current, recentData) ==
    LET recentValues == Kwh(recentData)
        n == Len(recentValues)
        sum == SumOver(LAMBDA j : recentValues[j], n)
        all == Append(recentValues, current.kwh)
    IN  IF n < 2 THEN NotAnomalous
        ELSE IF 10 * n * current.kwh < 4 * sum
        THEN [isAnomaly |-> TRUE, severity |-> "high", type |-> "drop"]
        ELSE IF n * current.kwh > 2 * sum
        THEN [isAnomaly |-> TRUE, severity |-> "high", type |-> "spike"]
        ELSE IF \/ \A j \in 1..Len(all) : 10 * n * all[j] > 13 * sum
                \/ \A j \in 1..Len(all) : 10 * n * all[j] < 7 * sum
        THEN [isAnomaly |-> TRUE, severity |-> "medium", type |-> "sustained"]
        ELSE NotAnomalous

\* detectEquipmentAnomaly: avgRecent = sum / n, compared without dividing
\* A faulty variant of detectEquipmentAnomaly: the sustained rule asks for some
\* value, instead of every value, above 1.3 times or below 0.7 times the
\* recent average.
detectEquipmentAnomalySomeValue(current, recentData) ==
    LET recentValues == Kwh(recentData)
        n == Len(recentValues)
        sum == SumOver(LAMBDA j : recentValues[j], n)
        all == Append(recentValues, current.kwh)
    IN  IF n < 3 THEN NotAnomalous
        ELSE IF 10 * n * current.kwh < 4 * sum
        THEN [isAnomaly |-> TRUE, severity |-> "high", type |-> "drop"]
        ELSE IF n * current.kwh > 2 * sum
        THEN [isAnomaly |-> TRUE, severity |-> "high", type |-> "spike"]
        ELSE IF \/ \E j \in 1..Len(all) : 10 * n * all[j] > 13 * sum
                \/ \E j \in 1..Len(all) : 10 * n * all[j] < 7 * sum
        THEN [isAnomaly |-> TRUE, severity |-> "medium", type |-> "sustained"]
        ELSE NotAnomalous

detectEquipmentAnomaly(current, recentData) ==
    LET recentValues == Kwh(recentData)
        n == Len(recentValues)
        sum == SumOver(LAMBDA j : recentValues[j], n)
        all == Append(recentValues, current.kwh)
    IN  IF n < 3 THEN NotAnomalous
        \* currentValue < avgRecent * 0.4
        ELSE IF 10 * n * current.kwh < 4 * sum
        THEN [isAnomaly |-> TRUE, severity |-> "high", type |-> "drop"]
        \* currentValue > avgRecent * 2.0
        ELSE IF n * current.kwh > 2 * sum
        THEN [isAnomaly |-> TRUE, severity |-> "high", type |-> "spike"]
        \* every v > avgRecent * 1.3, or every v < avgRecent * 0.7
        ELSE IF \/ \A j \in 1..Len(all) : 10 * n * all[j] > 13 * sum
                \/ \A j \in 1..Len(all) : 10 * n * all[j] < 7 * sum
        THEN [isAnomaly |-> TRUE, severity |-> "medium", type |-> "sustained"]
        ELSE NotAnomalous

getSeverityScore(severity) ==
    CASE severity = "high" -> 3
      [] severity = "medium" -> 2
      [] severity = "low" -> 1
      [] OTHER -> 0

\* A faulty variant of MostSevere: the comparison is >=, so the last of the
\* most severe results wins.
RECURSIVE MostSevereLastWins(_, _)
MostSevereLastWins(anomalies, k) ==
    IF k = 1 THEN anomalies[1]
    ELSE LET prev == MostSevereLastWins(anomalies, k - 1)
             curr == anomalies[k]
         IN  IF getSeverityScore(curr.severity) >= getSeverityScore(prev.severity)
             THEN curr ELSE prev

\* detectedAnomalies.reduce((prev, curr) => score(curr) > score(prev) ? curr : prev)
RECURSIVE MostSevere(_, _)
MostSevere(anomalies, k) ==
    IF k = 1 THEN anomalies[1]
    ELSE LET prev == MostSevere(anomalies, k - 1)
             curr == anomalies[k]
         IN  IF getSeverityScore(curr.severity) > getSeverityScore(prev.severity)
             THEN curr ELSE prev

\* A faulty variant of calculateAnomalyConfidence: the sum is not capped at
\* 0.98.
calculateAnomalyConfidenceUncapped(anomalies) ==
    IF Len(anomalies) = 0 THEN 0
    ELSE LET scores == SumOver(LAMBDA j : getSeverityScore(anomalies[j].severity),
                               Len(anomalies))
         IN  300 + (60 * scores) \div Len(anomalies) + 30 * Len(anomalies)

\* calculateAnomalyConfidence in 1/600:
\* min(0.98, 0.5 + (avgSeverity / 3) * 0.3 + (length / 4) * 0.2)
calculateAnomalyConfidence(anomalies) ==
    IF Len(anomalies) = 0 THEN 0
    ELSE LET scores == SumOver(LAMBDA j : getSeverityScore(anomalies[j].severity),
                               Len(anomalies))
         IN  Min(588, 300 + (60 * scores) \div Len(anomalies) + 30 * Len(anomalies))

\* the four sub-detectors on the sample at position j (1-based; i = j - 1)
SubDetectors(sensitivity, baseline, data, windowSize, j) ==
    LET current == data[j]
        window == SubSeq(data, j - windowSize, j - 1)
    IN  << detectStatisticalAnomaly(sensitivity, current, window),
           detectPatternAnomaly(baseline, current),
           detectContextualAnomaly(current, window),
           detectEquipmentAnomaly(current, SubSeq(data, Max(1, j - 6), j - 1)) >>

\* the body of the for loop: the record pushed for position j
DetectSample(sensitivity, baseline, data, windowSize, j) ==
    LET current == data[j]
        anomalyResults == SubDetectors(sensitivity, baseline, data, windowSize, j)
        detectedAnomalies == SelectSeq(anomalyResults, LAMBDA a : a.isAnomaly)
        mostSevere == MostSevere(detectedAnomalies, Len(detectedAnomalies))
    IN  IF Len(detectedAnomalies) > 0
        THEN [timestamp |-> current.timestamp,
              value |-> current.kwh,
              isAnomaly |-> TRUE,
              severity |-> mostSevere.severity,
              type |-> mostSevere.type,
              confidence |-> calculateAnomalyConfidence(detectedAnomalies)]
        ELSE [timestamp |-> current.timestamp,
              value |-> current.kwh,
              isAnomaly |-> FALSE,
              severity |-> "low",
              type |-> "undefined",
              confidence |-> 570]

\* for (let i = Math.max(windowSize, 24); ...): the first position scored
MinScored == 24

\* A faulty variant of FirstScored: the loop starts at windowSize.
FirstScoredAtWindowSize(windowSize) == windowSize + 1

FirstScored(windowSize) == Max(windowSize, MinScored) + 1

\* detectAnomalies, given the baseline it has just rebuilt
detectAnomalies(sensitivity, baseline, data, windowSize) ==
    LET first == FirstScored(windowSize)
    IN  [k \in 1..Max(0, Len(data) - first + 1) |->
            DetectSample(sensitivity, baseline, data, windowSize, first + k - 1)]

\* A faulty variant of RebuildAndScore: the samples are scored against the map
\* as the previous call left it (the rebuild comes after the loop).
ScoreBeforeRebuild(sensitivity, baselineBefore, data, windowSize) ==
    detectAnomalies(sensitivity, baselineBefore, data, windowSize)

\* the body of detectAnomalies on a detector whose map is baselineBefore:
\* this.buildHistoricalBaseline(data), then the loop
RebuildAndScore(sensitivity, baselineBefore, data, windowSize) ==
    detectAnomalies(sensitivity, buildHistoricalBaseline(baselineBefore, data),
                    data, windowSize)

\* the number of detectAnomalies calls followed on the one detector
MaxCalls == 2

\* Histories passed to detectAnomalies: a constant consumption `base`, whose
\* last samples are replaced by `tail`.  A configuration fixes the length, the
\* first timestamp, the sampling interval, whether the temperature swings by
\* 10 degrees from sample to sample (period 6) or stays at 20, and windowSize.
DetectBases == {30, 70}

DetectTails ==
    { << >>,
      <<10, 10, 10, 10, 10, 10, 30>>,
      <<0, 0, 0, 0, 0, 60, 30>>,
      <<40, 40, 40, 40, 40, 40, 10>> }

DetectConfigs ==
    { [len |-> 25, start |-> 0, interval |-> 14, swing |-> TRUE, windowSize |-> 6],
      [len |-> 26, start |-> 33, interval |-> 1, swing |-> FALSE, windowSize |-> 24] }

DetectHistory(config, base, tail) ==
    [j \in 1..config.len |->
        LET timestamp == config.start + (j - 1) * config.interval
            hour == GetHours(timestamp)
            kept == config.len - Len(tail)
        IN  [timestamp |-> timestamp,
             kwh |-> IF j > kept THEN tail[j - kept] ELSE base,
             temperature |-> IF config.swing THEN 10 * (j % 6) ELSE 20,
             irradiance |-> IF hour >= 6 /\ hour <= 18 THEN 100 + 50 * Abs(12 - hour) ELSE 0,
             occupancy |-> IF hour >= 8 /\ hour <= 18 THEN 80 ELSE 0]]

\* further histories: exactly 24 samples (none scored), fewer samples than
\* the default windowSize 48 (none scored), a windowSize above 24 (scored from
\* index 25), a sample 40% below its bucket's median after a noisy tail, a
\* sample about 2 standard deviations above the mean of its window, a
\* sample of 30 kWh in a bucket whose median is 0, and a sample of 30 kWh
\* after six of 10 kWh, three of them in its context, in a bucket whose
\* median is 70
DetectEdgeInputs ==
    { [config |-> [len |-> 25, start |-> 0, interval |-> 14, swing |-> TRUE,
                   windowSize |-> 6],
       base |-> 0, tail |-> <<0, 0, 0, 0, 0, 60, 30>>],
      [config |-> [len |-> 25, start |-> 0, interval |-> 14, swing |-> TRUE,
                   windowSize |-> 6],
       base |-> 50, tail |-> <<0, 0, 0, 0, 0, 60, 30>>],
      [config |-> [len |-> 25, start |-> 0, interval |-> 14, swing |-> TRUE,
                   windowSize |-> 6],
       base |-> 30, tail |-> <<0, 0, 0, 0, 0, 60, 55>>],
      [config |-> [len |-> 24, start |-> 0, interval |-> 14, swing |-> TRUE,
                   windowSize |-> 6],
       base |-> 30, tail |-> << >>],
      [config |-> [len |-> 26, start |-> 33, interval |-> 1, swing |-> FALSE,
                   windowSize |-> 48],
       base |-> 30, tail |-> <<10, 10, 10, 10, 10, 10, 30>>],
      [config |-> [len |-> 27, start |-> 33, interval |-> 1, swing |-> FALSE,
                   windowSize |-> 25],
       base |-> 30, tail |-> <<10, 10, 10, 10, 10, 10, 30>>],
      [config |-> [len |-> 25, start |-> 0, interval |-> 14, swing |-> FALSE,
                   windowSize |-> 6],
       base |-> 70, tail |-> <<10, 10, 10, 10, 10, 10, 30>>] }

DetectInputs ==
    {[config |-> config, base |-> base, tail |-> tail] :
        config \in DetectConfigs, base \in DetectBases, tail \in DetectTails}
    \union DetectEdgeInputs

\* detectAnomalies(data, windowSize) on the detector: the baseline is rebuilt
\* first, then every position from max(windowSize, 24) is scored
DetectCall ==
    /\ detectCall.calls < MaxCalls
    /\ \E input \in DetectInputs :
            LET config == input.config
                data == DetectHistory(config, input.base, input.tail)
            IN  /\ historicalBaseline' = buildHistoricalBaseline(historicalBaseline, data)
                /\ detectCall' = [called |-> TRUE,
                                  calls |-> detectCall.calls + 1,
                                  data |-> data,
                                  windowSize |-> config.windowSize,
                                  result |-> RebuildAndScore(sensitivityLevel,
                                                             historicalBaseline, data,
                                                             config.windowSize),
                                  \* the call before this one, for comparison
                                  previous |-> IF detectCall.called
                                               THEN [called |-> TRUE,
                                                     data |-> detectCall.data,
                                                     windowSize |-> detectCall.windowSize,
                                                     result |-> detectCall.result]
                                               ELSE NoCall]
    /\ UNCHANGED <<optCall, dayAhead, shiftCall, realTimeCall, forecastCall, sensitivityLevel, equipmentCall,
                   contextualCall, statsCall, app>>

\* detectEquipmentAnomaly is applied to the up to 6 samples of
\* data.slice(Math.max(0, i - 6), i)
MaxRecent == 6

\* consumption values of trailing and current samples (kWh)
EquipmentRecentKwh == {0, 10, 40}
EquipmentCurrentKwh == {0, 3, 4, 5, 10, 20, 21, 40, 100}

\* one application of detectEquipmentAnomaly is followed
EquipmentCall ==
    /\ ~equipmentCall.called
    /\ \E values \in SeqsUpTo(EquipmentRecentKwh, MaxRecent),
          kwh \in EquipmentCurrentKwh :
            LET recentData == [j \in 1..Len(values) |->
                                  [timestamp |-> j - 1, kwh |-> values[j]]]
                current == [timestamp |-> Len(values), kwh |-> kwh]
            IN  equipmentCall' = [called |-> TRUE,
                                  current |-> current,
                                  recentData |-> recentData,
                                  result |-> detectEquipmentAnomaly(current, recentData)]
    /\ UNCHANGED <<optCall, dayAhead, shiftCall, realTimeCall, forecastCall,
                   sensitivityLevel, historicalBaseline, detectCall,
                   contextualCall, statsCall, app>>

\* detectContextualAnomaly is applied to a scored sample and its trailing
\* window; at most this many window samples are followed
MaxContext == 4

\* the scored sample: a business hour (10:00), 20 degrees, occupancy 0.8
ContextCurrentKwh == {0, 5, 10, 14, 30, 50, 100, 200}

\* window samples: consumption and context.  Temperatures 24 and 25 are 4 and
\* 5 degrees from the scored sample's, occupancy 0.6 is 0.2 from it, and hour
\* 20 is outside business hours
ContextSamples ==
    {[timestamp |-> 9,  kwh |-> 0,  temperature |-> 20, occupancy |-> 80],
     [timestamp |-> 9,  kwh |-> 10, temperature |-> 20, occupancy |-> 80],
     [timestamp |-> 18, kwh |-> 40, temperature |-> 24, occupancy |-> 70],
     [timestamp |-> 9,  kwh |-> 40, temperature |-> 25, occupancy |-> 80],
     [timestamp |-> 9,  kwh |-> 10, temperature |-> 20, occupancy |-> 60],
     [timestamp |-> 20, kwh |-> 10, temperature |-> 20, occupancy |-> 80]}

\* one application of detectContextualAnomaly is followed
ContextualCall ==
    /\ ~contextualCall.called
    /\ \E window \in SeqsUpTo(ContextSamples, MaxContext),
          kwh \in ContextCurrentKwh :
            LET current == [timestamp |-> 10, kwh |-> kwh,
                            temperature |-> 20, occupancy |-> 80]
            IN  contextualCall' = [called |-> TRUE,
                                   current |-> current,
                                   window |-> window,
                                   result |-> detectContextualAnomaly(current, window)]
    /\ UNCHANGED <<optCall, dayAhead, shiftCall, realTimeCall, forecastCall,
                   sensitivityLevel, historicalBaseline, detectCall, equipmentCall,
                   statsCall, app>>

\* the number of records of a list with a severity, and with a type
CountSeverity(records, severity) ==
    Len(SelectSeq(records, LAMBDA a : a.severity = severity))

CountType(records, type) ==
    Len(SelectSeq(records, LAMBDA a : a.type = type))

\* A faulty variant of getAnomalyStats: the records are not filtered on
\* isAnomaly.
getAnomalyStatsOfAll(anomalies) ==
    [total |-> Len(anomalies),
     high |-> CountSeverity(anomalies, "high"),
     medium |-> CountSeverity(anomalies, "medium"),
     low |-> CountSeverity(anomalies, "low"),
     types |-> [spikes |-> CountType(anomalies, "spike"),
                drops |-> CountType(anomalies, "drop"),
                sustained |-> CountType(anomalies, "sustained"),
                patterns |-> CountType(anomalies, "pattern")]]

getAnomalyStats(anomalies) ==
    LET recentAnomalies == SelectSeq(anomalies, LAMBDA a : a.isAnomaly)
    IN  [total |-> Len(recentAnomalies),
         high |-> CountSeverity(recentAnomalies, "high"),
         medium |-> CountSeverity(recentAnomalies, "medium"),
         low |-> CountSeverity(recentAnomalies, "low"),
         types |-> [spikes |-> CountType(recentAnomalies, "spike"),
                    drops |-> CountType(recentAnomalies, "drop"),
                    sustained |-> CountType(recentAnomalies, "sustained"),
                    patterns |-> CountType(recentAnomalies, "pattern")]]

\* the histories whose records are counted: those of DetectInputs, and a
\* flat history of 26 hourly samples of 30 kWh that ends on one of 90 kWh
\* (its last sample is flagged, the one before is not)
StatsInputs ==
    DetectInputs \union
    { [config |-> [len |-> 26, start |-> 33, interval |-> 1, swing |-> FALSE,
                   windowSize |-> 24],
       base |-> 30, tail |-> <<90>>] }

\* the most records a history of StatsInputs yields
MaxRecords == 2

\* a call of getAnomalyStats on the most recent records of a list (all of
\* them, when there are fewer); the records come from a detector of the given
\* sensitivity on the given history
StatsOfRecent(records, recent, sensitivity, input) ==
    [called |-> TRUE,
     sensitivity |-> sensitivity,
     input |-> input,
     anomalies |-> SliceLast(records, recent),
     result |-> getAnomalyStats(SliceLast(records, recent))]

\* getAnomalyStats is applied to records detectAnomalies has returned: all of
\* a call's records, or the most recent of them.  One call is followed.
StatsCall ==
    /\ ~statsCall.called
    /\ \E sensitivity \in SensitivityLevels, input \in StatsInputs,
          recent \in 0..MaxRecords :
            statsCall' = StatsOfRecent(
                             RebuildAndScore(sensitivity, << >>,
                                 DetectHistory(input.config, input.base, input.tail),
                                 input.config.windowSize),
                             recent, sensitivity, input)
    /\ UNCHANGED <<optCall, dayAhead, shiftCall, realTimeCall, forecastCall,
                   sensitivityLevel, historicalBaseline, detectCall, equipmentCall,
                   contextualCall, app>>

-----------------------------------------------------------------------------
(* App: the live loop *)

\* The component's state is energyData, forecast, optimization, gridPrice,
\* timeOfUse, batteryLevel and isLiveMode.  A sample of energyData is followed
\* by its timestamp (hours); its other fields are random numbers the loop does
\* not branch on, and the forecast computed from them is any of AppForecasts.
\* Energies in milli-kWh, gridPrice in 1e-3 $/kWh (as for optimize).

\* the component before its first effect has run
Unmounted == [mounted |-> FALSE]

\* no forecast, no optimization yet (useState(null))
Null == [kind |-> "null"]

\* generateSyntheticData(14): two weeks of hourly samples
InitialSamples == 336

\* the ticks of the live loop the model follows
MaxTicks == 3

\* forecastNextHour results: demand (>= 5 kWh) and solar (>= 0)
AppForecasts ==
    {[nextHourDemand |-> 50000, solarAvailable |-> 30000],
     [nextHourDemand |-> 12340, solarAvailable |-> 30000],
     [nextHourDemand |-> 30000, solarAvailable |-> 30000],
     [nextHourDemand |-> 60000, solarAvailable |-> 0]}

\* values the control panel sets
AppGridPrices == {120, 200}
AppBatteryLevels == {0, 25000, 50000}

\* A faulty variant of Retain: nothing is dropped.
RetainAll(data) == data

\* .slice(-336): keep the last 2 weeks
Retain(data) == SliceLast(data, 336)

\* updatedData.length > 48
EnoughHistory(data) == Len(data) > 48

\* Math.max(0, Math.min(50, level))
AppClamp(level) == Max(0, Min(50000, level))

\* the guard of the battery update: both fields truthy (neither is 0)
BatteryUpdateGuard(optimizationResult) ==
    optimizationResult.batteryKwh # 0 /\ optimizationResult.batteryCharge # 0

\* the effect on [gridPrice, timeOfUse, batteryLevel, forecast]: optimization
\* is computed again from the state
Reoptimize(state) ==
    IF state.forecast = Null THEN state
    ELSE [state EXCEPT !.optimization =
             optimize(state.forecast.nextHourDemand, state.forecast.solarAvailable,
                      state.gridPrice, state.batteryLevel, state.timeOfUse)]

\* the first effect: initial data, and forecast and optimization from it
AppMount ==
    /\ ~app.mounted
    /\ \E start \in HistoryStarts, forecastResult \in AppForecasts :
          LET dataWithAnomalies == [j \in 1..InitialSamples |-> start + j - 1]
              gridPrice == 120
              timeOfUse == "mid-peak"
              batteryLevel == 25000
              ran == EnoughHistory(dataWithAnomalies)
              threw == ran /\ ~MinHistoryMet(dataWithAnomalies)
              state == [mounted |-> TRUE,
                        energyData |-> dataWithAnomalies,
                        forecast |-> IF ran /\ ~threw THEN forecastResult ELSE Null,
                        optimization |-> Null,
                        gridPrice |-> gridPrice,
                        timeOfUse |-> timeOfUse,
                        batteryLevel |-> batteryLevel,
                        isLiveMode |-> TRUE,
                        ticks |-> 0,
                        \* the lengths forecastNextHour was called with, and
                        \* whether it has thrown
                        forecastLengths |-> IF ran THEN {Len(dataWithAnomalies)} ELSE {},
                        raised |-> threw,
                        tick |-> NoCall]
          IN  app' = Reoptimize(state)
    /\ UNCHANGED <<optCall, dayAhead, shiftCall, realTimeCall, forecastCall,
                   sensitivityLevel, historicalBaseline, detectCall, equipmentCall,
                   contextualCall, statsCall>>

\* one tick of the interval: the setEnergyData updater, the battery update it
\* queues, and the effect that follows.  tick records what the tick did.
AppTick ==
    /\ app.mounted
    /\ app.isLiveMode
    /\ app.ticks < MaxTicks
    /\ \E forecastResult \in AppForecasts :
          LET prevData == app.energyData
              newTimestamp == prevData[Len(prevData)] + 1
              updatedData == Retain(Append(prevData, newTimestamp))
              ran == EnoughHistory(updatedData)
              threw == ran /\ ~MinHistoryMet(updatedData)
              optimizationResult ==
                  optimize(forecastResult.nextHourDemand, forecastResult.solarAvailable,
                           app.gridPrice, app.batteryLevel, app.timeOfUse)
              \* the result's fields are in centi-kWh
              batteryLevel ==
                  IF BatteryUpdateGuard(optimizationResult)
                  THEN AppClamp(app.batteryLevel - 10 * optimizationResult.batteryKwh
                                                 + 10 * optimizationResult.batteryCharge)
                  ELSE app.batteryLevel
              done == [called |-> TRUE,
                       previousLength |-> Len(prevData),
                       previousFirst |-> prevData[1],
                       previousLast |-> prevData[Len(prevData)],
                       previousLevel |-> app.batteryLevel,
                       length |-> Len(updatedData),
                       forecastRan |-> ran,
                       forecastThrew |-> threw,
                       optimizeRan |-> ran /\ ~threw,
                       detectRan |-> ran /\ ~threw,
                       optimizationResult |-> IF ran /\ ~threw THEN optimizationResult
                                              ELSE Null]
          IN  app' = IF threw
                     THEN [app EXCEPT !.forecastLengths = @ \union {Len(updatedData)},
                                      !.raised = TRUE,
                                      !.ticks = @ + 1, !.tick = done]
                     ELSE IF ~ran
                     THEN [app EXCEPT !.energyData = updatedData,
                                      !.ticks = @ + 1, !.tick = done]
                     ELSE Reoptimize([app EXCEPT !.energyData = updatedData,
                                                 !.forecast = forecastResult,
                                                 !.batteryLevel = batteryLevel,
                                                 !.forecastLengths = @ \union {Len(updatedData)},
                                                 !.ticks = @ + 1, !.tick = done])
    /\ UNCHANGED <<optCall, dayAhead, shiftCall, realTimeCall, forecastCall,
                   sensitivityLevel, historicalBaseline, detectCall, equipmentCall,
                   contextualCall, statsCall>>

\* the setters handed to the control panel, each followed by the effect
AppSetGridPrice ==
    /\ app.mounted
    /\ \E gridPrice \in AppGridPrices :
          /\ gridPrice # app.gridPrice
          /\ app' = Reoptimize([app EXCEPT !.gridPrice = gridPrice, !.tick = NoCall])
    /\ UNCHANGED <<optCall, dayAhead, shiftCall, realTimeCall, forecastCall,
                   sensitivityLevel, historicalBaseline, detectCall, equipmentCall,
                   contextualCall, statsCall>>

AppSetTimeOfUse ==
    /\ app.mounted
    /\ \E timeOfUse \in TimesOfUse :
          /\ timeOfUse # app.timeOfUse
          /\ app' = Reoptimize([app EXCEPT !.timeOfUse = timeOfUse, !.tick = NoCall])
    /\ UNCHANGED <<optCall, dayAhead, shiftCall, realTimeCall, forecastCall,
                   sensitivityLevel, historicalBaseline, detectCall, equipmentCall,
                   contextualCall, statsCall>>

AppSetBatteryLevel ==
    /\ app.mounted
    /\ \E batteryLevel \in AppBatteryLevels :
          /\ batteryLevel # app.batteryLevel
          /\ app' = Reoptimize([app EXCEPT !.batteryLevel = batteryLevel, !.tick = NoCall])
    /\ UNCHANGED <<optCall, dayAhead, shiftCall, realTimeCall, forecastCall,
                   sensitivityLevel, historicalBaseline, detectCall, equipmentCall,
                   contextualCall, statsCall>>

AppSetLiveMode ==
    /\ app.mounted
    /\ app' = [app EXCEPT !.isLiveMode = ~@, !.tick = NoCall]
    /\ UNCHANGED <<optCall, dayAhead, shiftCall, realTimeCall, forecastCall,
                   sensitivityLevel, historicalBaseline, detectCall, equipmentCall,
                   contextualCall, statsCall>>

-----------------------------------------------------------------------------
(* Specifications *)

\* the state after construction of the three engines; the detector is built
\* with the constructor's default sensitivity
Engines(sensitivity) ==
    /\ optCall = NoCall
    /\ dayAhead = [pc |-> "idle"]
    /\ shiftCall = NoCall
    /\ realTimeCall = NoCall
    /\ forecastCall = NoCall
    /\ sensitivityLevel = sensitivity
    /\ historicalBaseline = << >>
    /\ detectCall = [called |-> FALSE, calls |-> 0]
    /\ equipmentCall = NoCall
    /\ contextualCall = NoCall
    /\ statsCall = NoCall
    /\ app = Unmounted

Init == Engines("medium")

\* the same, with the detector built with any sensitivity
InitDetector == \E sensitivity \in SensitivityLevels : Engines(sensitivity)

SpecOptimize == Init /\ [][OptimizeCall]_vars

NextDayAhead == DayAheadCall \/ DayAheadStep \/ DayAheadReturn
SpecDayAhead == Init /\ [][NextDayAhead]_vars

SpecLoadShifting == Init /\ [][LoadShiftingCall]_vars

SpecRealTimePrice == Init /\ [][RealTimePriceCall]_vars

SpecForecast == Init /\ [][ForecastCall]_vars

SpecDetect == InitDetector /\ [][DetectCall]_vars

SpecEquipment == Init /\ [][EquipmentCall]_vars

SpecContextual == Init /\ [][ContextualCall]_vars

SpecStats == Init /\ [][StatsCall]_vars

NextApp ==
    \/ AppMount
    \/ AppTick
    \/ AppSetGridPrice
    \/ AppSetTimeOfUse
    \/ AppSetBatteryLevel
    \/ AppSetLiveMode
SpecApp == Init /\ [][NextApp]_vars

-----------------------------------------------------------------------------
(* Properties of optimize *)

\* the dispatch of the call in optCall, before rounding
OptDispatch ==
    Dispatch(optCall.demandKwh, optCall.solarAvailableKwh,
             optCall.gridPrice * PriceMultiplier(optCall.timeOfUse),
             optCall.batteryLevel, optCall.timeOfUse)

\* C1: for demand >= 0, solarAvailable >= 0 and batteryLevel >= 0 the solar,
\* battery-discharge and grid energies add up to the demand: exactly before
\* rounding, and within the three half-cents (3 * 0.005 kWh) that rounding each
\* returned field to 2 decimals can add; the grid serves exactly the residual
\* demand left after solar and battery.
C1_SupplyMeetsDemand ==
    (optCall.called /\ optCall.demandKwh >= 0 /\ optCall.solarAvailableKwh >= 0
        /\ optCall.batteryLevel >= 0) =>
        LET r == optCall.result
            d == OptDispatch
        IN  /\ d.solarKwh + d.batteryDischarge + d.gridKwh = optCall.demandKwh
            /\ Abs(10 * (r.solarKwh + r.batteryKwh + r.gridKwh) - optCall.demandKwh) <= 15
            /\ r.gridKwh = MathRound(optCall.demandKwh - d.solarKwh - d.batteryDischarge, 10)

\* a call in which solar, battery and grid all serve demand and rounding moves the sum
C1_Witness ==
    /\ optCall.called
    /\ optCall.result.solarKwh > 0
    /\ optCall.result.batteryKwh > 0
    /\ optCall.result.gridKwh > 0
    /\ 10 * (optCall.result.solarKwh + optCall.result.batteryKwh + optCall.result.gridKwh)
         # optCall.demandKwh

\* C7 (as claimed): for every call with demand >= 0, renewablePercentage,
\* peakDemandReduction and gridStressReduction are defined numbers in [0, 100].
C7_MetricsDefinedInRange ==
    (optCall.called /\ optCall.demandKwh >= 0) =>
        LET r == optCall.result
        IN  /\ r.renewablePercentage \in 0..1000
            /\ r.peakDemandReduction \in 0..1000
            /\ IsNum(r.gridStressReduction)
            /\ r.gridStressReduction.val \in 0..1000

\* C10: strict merit order.  Solar serves demand first (solarKwh = min(solar,
\* demand)); the battery discharges only for demand solar did not cover; the
\* grid serves only what is left, and when the battery discharges and the grid
\* still supplies, the battery was emptied.  For demand 50, solar 30, battery 25,
\* price 0.12 at peak: solarKwh 30, discharge 20, gridKwh 0, totalCost 0.
C10_MeritOrder ==
    optCall.called =>
        LET r == optCall.result
        IN  /\ r.solarKwh = MathRound(Min(optCall.solarAvailableKwh, optCall.demandKwh), 10)
            /\ r.batteryKwh > 0 => optCall.solarAvailableKwh < optCall.demandKwh
            /\ r.batteryKwh <= MathRound(optCall.demandKwh
                                  - Min(optCall.solarAvailableKwh, optCall.demandKwh), 10)
            /\ r.gridKwh > 0 => optCall.solarAvailableKwh < optCall.demandKwh
            /\ (r.gridKwh > 0 /\ r.batteryKwh > 0) =>
                   r.batteryKwh = MathRound(optCall.batteryLevel, 10)
            /\ (/\ optCall.demandKwh = 50000 /\ optCall.solarAvailableKwh = 30000
                /\ optCall.batteryLevel = 25000 /\ optCall.gridPrice = 120
                /\ optCall.timeOfUse = "peak") =>
                   (/\ r.solarKwh = 3000 /\ r.batteryKwh = 2000
                    /\ r.gridKwh = 0 /\ r.totalCost = 0)

\* the example call of C10
C10_Witness ==
    /\ optCall.called
    /\ optCall.demandKwh = 50000 /\ optCall.solarAvailableKwh = 30000
    /\ optCall.batteryLevel = 25000 /\ optCall.gridPrice = 120
    /\ optCall.timeOfUse = "peak"
    /\ optCall.result.batteryKwh = 2000

\* C11: the battery discharge is nonzero only if timeOfUse is peak or gridPrice
\* * multiplier(timeOfUse) > 0.15, and then it is min(remaining demand after
\* solar, batteryLevel); in every other case the discharge is 0 and the grid
\* serves all the remaining demand.  For demand 50, solar 10, battery 25, price
\* 0.12 off-peak: discharge 0, gridKwh 40, totalCost 2.88.
C11_DischargeOnlyWhenEconomical ==
    optCall.called =>
        LET r == optCall.result
            remaining == optCall.demandKwh - Min(optCall.solarAvailableKwh, optCall.demandKwh)
            economical == \/ optCall.timeOfUse = "peak"
                          \/ optCall.gridPrice * PriceMultiplier(optCall.timeOfUse)
                                > HighPriceThreshold
        IN  /\ r.batteryKwh # 0 =>
                  /\ economical
                  /\ r.batteryKwh = MathRound(Min(remaining, optCall.batteryLevel), 10)
            /\ ~economical =>
                  /\ r.batteryKwh = 0
                  /\ r.gridKwh = MathRound(remaining, 10)
            /\ (/\ optCall.demandKwh = 50000 /\ optCall.solarAvailableKwh = 10000
                /\ optCall.batteryLevel = 25000 /\ optCall.gridPrice = 120
                /\ optCall.timeOfUse = "off-peak") =>
                   (/\ r.batteryKwh = 0 /\ r.solarKwh = 1000
                    /\ r.gridKwh = 4000 /\ r.totalCost = 288)

\* the example call of C11: demand remains, the battery holds energy, and it
\* is not discharged
C11_Witness ==
    /\ optCall.called
    /\ optCall.demandKwh = 50000 /\ optCall.solarAvailableKwh = 10000
    /\ optCall.batteryLevel = 25000 /\ optCall.gridPrice = 120
    /\ optCall.timeOfUse = "off-peak"
    /\ optCall.result.gridKwh = 4000

\* C17: for 0 <= batteryLevel <= capacity, the solar left after serving demand
\* charges the battery: the solar drawn is min(leftover, capacity -
\* batteryLevel), batteryCharge is that amount times the efficiency and
\* excessSolar the leftover minus the solar drawn (the returned fields are these
\* amounts rounded to 2 decimals); hence solarKwh + batteryCharge / efficiency +
\* excessSolar = solarAvailable and batteryLevel + batteryCharge <= capacity.
C17_LeftoverSolarCharges ==
    (optCall.called /\ optCall.batteryLevel >= 0 /\ optCall.batteryLevel <= 50000
        /\ optCall.demandKwh >= 0 /\ optCall.solarAvailableKwh >= 0) =>
        LET r == optCall.result
            d == OptDispatch
            used == IF optCall.solarAvailableKwh < optCall.demandKwh
                    THEN optCall.solarAvailableKwh ELSE optCall.demandKwh
            leftover == optCall.solarAvailableKwh - used
            room == 50000 - optCall.batteryLevel
            drawn == IF leftover < room THEN leftover ELSE room
        IN  \* batteryCharge in milli-kWh * percent
            /\ d.batteryCharge = drawn * 95
            /\ d.excessSolar = leftover - drawn
            /\ r.batteryCharge = (2 * drawn * 95 + 1000) \div 2000
            /\ r.excessSolar = (2 * (leftover - drawn) + 10) \div 20
            /\ 95 * (d.solarKwh + d.excessSolar) + d.batteryCharge
                  = 95 * optCall.solarAvailableKwh
            /\ 100 * optCall.batteryLevel + d.batteryCharge <= 100 * 50000

\* a call whose leftover solar exceeds the room left in a part-full battery:
\* the battery is charged and some solar is excess
C17_Witness ==
    /\ optCall.called
    /\ optCall.batteryLevel = 25000
    /\ optCall.solarAvailableKwh - optCall.demandKwh > 25000
    /\ optCall.result.batteryCharge = 2375
    /\ optCall.result.excessSolar > 0

-----------------------------------------------------------------------------
(* Properties of optimizeForRealTimePrice *)

\* C15: exactly one action, chosen by first match on priceRatio = currentPrice
\* / averagePrice: use_battery if ratio > 1.5 and batteryLevel > 10; else
\* charge_battery if ratio < 0.7 and solar > demand; else reduce_load if ratio >
\* 1.2 (so a ratio above 1.5 with batteryLevel <= 10 gives reduce_load); else
\* maintain with potentialSavings = 0.  (For averagePrice = 0 the ratio is
\* +Infinity when currentPrice > 0 and NaN, which compares false, when it is 0.)
C15_FirstMatchingAction ==
    (realTimeCall.called /\ realTimeCall.averagePrice >= 0
        /\ realTimeCall.currentPrice >= 0) =>
        LET c == realTimeCall.currentPrice
            a == realTimeCall.averagePrice
            r == realTimeCall.result
            above15 == IF a > 0 THEN 2 * c > 3 * a ELSE c > 0
            below07 == a > 0 /\ 10 * c < 7 * a
            above12 == IF a > 0 THEN 5 * c > 6 * a ELSE c > 0
            expected == IF above15 /\ realTimeCall.batteryLevel > 10000 THEN "use_battery"
                        ELSE IF below07 /\ realTimeCall.solarKwh > realTimeCall.demandKwh
                        THEN "charge_battery"
                        ELSE IF above12 THEN "reduce_load"
                        ELSE "maintain"
        IN  /\ r.action = expected
            /\ r.action = "maintain" => r.potentialSavings = 0
            /\ (above15 /\ realTimeCall.batteryLevel <= 10000) => r.action = "reduce_load"

\* a call with a ratio above 1.5 and a battery level of exactly 10: reduce_load
C15_Witness ==
    /\ realTimeCall.called
    /\ realTimeCall.currentPrice = 200 /\ realTimeCall.averagePrice = 120
    /\ realTimeCall.batteryLevel = 10000
    /\ realTimeCall.result.action = "reduce_load"

-----------------------------------------------------------------------------
(* Properties of optimizeDayAhead *)

\* C2: the battery level carried after every period, and the batteryLevel
\* reported on every result, lies in [0, batteryCapacity].
C2_BatteryLevelInRange ==
    dayAhead.pc # "idle" =>
        /\ \A k \in 1..Len(dayAhead.results) :
               dayAhead.results[k].batteryLevel \in 0..(BatteryCapacity \div 10)
        /\ Len(dayAhead.results) > 0 => dayAhead.batteryLevel \in 0..BatteryCapacity

\* a finished rollout that started outside [0, capacity] and both charged and
\* discharged the battery
C2_Witness ==
    /\ dayAhead.pc = "done"
    /\ dayAhead.initialBatteryLevel \notin 0..BatteryCapacity
    /\ Len(dayAhead.results) >= 2
    /\ \E k \in 1..Len(dayAhead.results) : dayAhead.results[k].result.batteryKwh > 0
    /\ \E k \in 1..Len(dayAhead.results) : dayAhead.results[k].result.batteryCharge > 0

\* the level threaded to the period after period k of the running rollout
LevelAfter(k) ==
    IF k < Len(dayAhead.entered) THEN dayAhead.entered[k + 1] ELSE dayAhead.batteryLevel

\* one result per entry of demands, and the threading of the level:
\* level_0 = initialBatteryLevel, level_(i+1) = clamp(0, capacity, level_i -
\* discharge_i + charge_i) with the reported discharge and charge
DayAheadThreading ==
    /\ dayAhead.pc = "done" => Len(dayAhead.results) = Len(dayAhead.periods)
    /\ Len(dayAhead.entered) = Len(dayAhead.results)
    /\ Len(dayAhead.entered) > 0 => dayAhead.entered[1] = dayAhead.initialBatteryLevel
    /\ \A k \in 1..Len(dayAhead.results) :
          LET next == dayAhead.entered[k] - 10 * dayAhead.results[k].result.batteryKwh
                        + 10 * dayAhead.results[k].result.batteryCharge
          IN  LevelAfter(k) = IF next < 0 THEN 0
                              ELSE IF next > 50000 THEN 50000 ELSE next

\* C16 (as stated): one result per entry of demands; the level passed to
\* optimize for period i+1 is clamp(0, capacity, level_i - discharge_i +
\* charge_i); consequently the discharge reported for any period never exceeds
\* the battery level that entered that period.
C16_DischargeWithinEnteringLevel ==
    dayAhead.pc # "idle" =>
        /\ DayAheadThreading
        /\ \A k \in 1..Len(dayAhead.results) :
              10 * dayAhead.results[k].result.batteryKwh <= dayAhead.entered[k]

\* C16 (amended): the same threading; the discharge reported for any period
\* never exceeds the level that entered that period rounded to 2 decimals as
\* the discharge is, and it is 0 when that level is not positive.
C16_DischargeWithinRoundedLevel ==
    dayAhead.pc # "idle" =>
        /\ DayAheadThreading
        /\ \A k \in 1..Len(dayAhead.results) :
              IF dayAhead.entered[k] > 0
              THEN dayAhead.results[k].result.batteryKwh
                      <= (2 * dayAhead.entered[k] + 10) \div 20
              ELSE dayAhead.results[k].result.batteryKwh = 0

\* a finished rollout of at least two periods in which a period discharged the
\* whole level that entered it, a level that rounds up (10.006 kWh, reported
\* 10.01), and the next period started from the clamped level 0
C16_Witness ==
    /\ dayAhead.pc = "done"
    /\ Len(dayAhead.results) >= 2
    /\ \E k \in 1..(Len(dayAhead.results) - 1) :
            /\ dayAhead.entered[k] > 0
            /\ 10 * dayAhead.results[k].result.batteryKwh > dayAhead.entered[k]
            /\ dayAhead.entered[k + 1] = 0

-----------------------------------------------------------------------------
(* Properties of optimizeLoadShifting *)

\* the cost of load k of the call in shiftCall at an hour
ShiftCost(k, hour) ==
    calculateLoadCost(shiftCall.flexibleLoads[k].kwh, Num(hour), shiftCall.demands,
                      shiftCall.solarForecasts, shiftCall.gridPrices)

\* the positions of load k's window whose hour indexes the demands array
ShiftEvaluated(k) ==
    {j \in 1..Len(shiftCall.flexibleLoads[k].timeWindow) :
        shiftCall.flexibleLoads[k].timeWindow[j] < Len(shiftCall.demands)}

\* every hour of load k's window other than the default (first) hour costs more
\* than the default hour: any shift increases cost
ShiftingIncreasesCost(k) ==
    LET w == shiftCall.flexibleLoads[k].timeWindow
    IN  /\ Len(w) >= 2
        /\ ShiftEvaluated(k) = 1..Len(w)
        /\ \A j \in 2..Len(w) : ShiftCost(k, w[j]).val > ShiftCost(k, w[1]).val

\* C8 (as claimed): a load whose window makes shifting increase cost, relative
\* to the default hour, is reported with a negative savings value.
C8_NegativeSavingsReported ==
    shiftCall.called =>
        \A k \in 1..Len(shiftCall.flexibleLoads) :
            ShiftingIncreasesCost(k) =>
                /\ IsNum(shiftCall.result.shiftedLoads[k].savings)
                /\ shiftCall.result.shiftedLoads[k].savings.val < 0

\* C8 (amended): the default hour is itself a candidate, so a load whose window
\* makes every shift dearer stays at its default hour with savings 0; for every
\* load whose default hour indexes the arrays, savings is the difference
\* cost(default hour) - cost(chosen hour) rounded to cents, and is never negative.
C8_SavingsNeverNegative ==
    shiftCall.called =>
        \A k \in 1..Len(shiftCall.flexibleLoads) :
            LET e == shiftCall.result.shiftedLoads[k]
                w == shiftCall.flexibleLoads[k].timeWindow
            IN  /\ ShiftingIncreasesCost(k) =>
                       (e.optimalHour = e.originalHour /\ e.savings = Num(0))
                /\ 1 \in ShiftEvaluated(k) =>
                       /\ IsNum(e.savings) /\ e.savings.val >= 0
                       /\ e.savings = RoundCents(Subtract(ShiftCost(k, w[1]),
                                                          ShiftCost(k, e.optimalHour.val)))

\* a load whose every other hour is dearer than its default hour
C8_Witness ==
    /\ shiftCall.called
    /\ \E k \in 1..Len(shiftCall.flexibleLoads) :
           /\ ShiftingIncreasesCost(k)
           /\ Len(shiftCall.flexibleLoads[k].timeWindow) >= 3
           /\ shiftCall.result.shiftedLoads[k].savings = Num(0)

\* C9: the hour chosen for a load has the least marginal grid cost
\* max(0, demand[h] + kwh - solar[h]) * price[h] among the hours of its window
\* (those that index the arrays; the code skips the others), the first listed
\* of the cheapest hours wins, and the reported savings is the cost at the
\* window's first hour minus the cost at the chosen hour (in cents, as every
\* amount of the result is rounded).
C9_CheapestHourFirstWins ==
    shiftCall.called =>
        \A k \in 1..Len(shiftCall.flexibleLoads) :
            LET e == shiftCall.result.shiftedLoads[k]
                load == shiftCall.flexibleLoads[k]
                w == load.timeWindow
                cost(j) == Max(0, shiftCall.demands[w[j] + 1] + load.kwh
                                    - shiftCall.solarForecasts[w[j] + 1])
                           * shiftCall.gridPrices[w[j] + 1]
                cheapest == {j \in ShiftEvaluated(k) :
                                \A i \in ShiftEvaluated(k) : cost(j) <= cost(i)}
            IN  ShiftEvaluated(k) # {} =>
                    \E j \in cheapest :
                        /\ \A i \in cheapest : j <= i
                        /\ e.optimalHour = Num(w[j])
                        /\ 1 \in ShiftEvaluated(k) =>
                               e.savings = Num(MathRound(cost(1) - cost(j), 10000))

\* a load whose window lies within the arrays, with two cheapest hours of equal
\* cost, neither of them the default hour, and a positive saving
C9_Witness ==
    /\ shiftCall.called
    /\ \E k \in 1..Len(shiftCall.flexibleLoads) :
           LET w == shiftCall.flexibleLoads[k].timeWindow
               e == shiftCall.result.shiftedLoads[k]
           IN  /\ Len(w) >= 3
               /\ ShiftEvaluated(k) = 1..Len(w)
               /\ ShiftCost(k, w[2]) = ShiftCost(k, w[3])
               /\ ShiftCost(k, w[2]).val < ShiftCost(k, w[1]).val
               /\ e.optimalHour = Num(w[2])
               /\ e.savings.val > 0

-----------------------------------------------------------------------------
(* Properties of forecastNextHour *)

\* C5: forecastNextHour throws exactly when the history has fewer than 48
\* samples: 47 samples throw, 48 samples return a ForecastResult.
C5_ThrowsExactlyBelow48 ==
    forecastCall.called =>
        /\ forecastCall.result.threw <=> Len(forecastCall.data) < 48
        /\ Len(forecastCall.data) = 47 => forecastCall.result.threw
        /\ Len(forecastCall.data) = 48 =>
               (~forecastCall.result.threw
                /\ DOMAIN forecastCall.result
                     = {"threw", "nextHourDemand", "solarAvailable", "confidence"})

\* a history of 47 samples that throws
C5_Witness ==
    /\ forecastCall.called
    /\ Len(forecastCall.data) = 47
    /\ forecastCall.result.threw

\* C6 (as claimed): for a history of at least 48 samples with non-negative
\* consumption, nextHourDemand >= 5, solarAvailable >= 0 and confidence is a
\* number within [0.65, 0.98], never NaN.
C6_ForecastInRange ==
    (/\ forecastCall.called
     /\ Len(forecastCall.data) >= 48
     /\ \A j \in 1..Len(forecastCall.data) : forecastCall.data[j].kwh >= 0) =>
        LET r == forecastCall.result
        IN  /\ ~r.threw
            /\ IsNum(r.nextHourDemand) /\ r.nextHourDemand.val >= 5000000
            /\ r.solarAvailable >= 0
            /\ IsNum(r.confidence) /\ r.confidence.val \in 65000..98000

-----------------------------------------------------------------------------
(* Properties of detectAnomalies *)

\* C3: after any sequence of detectAnomalies calls on one detector, the
\* baseline map holds exactly the (day-of-week, hour) keys of the most recent
\* call's history, each mapped to that history's bucket median, and no entry
\* left over from an earlier call.
C3_BaselineWhollyRebuilt ==
    detectCall.called =>
        /\ DOMAIN historicalBaseline = HistoryKeys(detectCall.data)
        /\ \A key \in HistoryKeys(detectCall.data) :
                historicalBaseline[key] = BucketMedian(detectCall.data, key)

\* the position in data of the k-th record of the last call's result
ScoredPosition(k) == FirstScored(detectCall.windowSize) + k - 1

\* the sample at position j is 3 times the mean of the 6 samples before it,
\* and that mean is positive
ThreeTimesTrailingMean(data, j) ==
    LET sum == SumOver(LAMBDA m : data[j - m].kwh, 6)
    IN  j > 6 /\ sum > 0 /\ 6 * data[j].kwh = 3 * sum

\* the detectors before the equipment detector (statistical, pattern,
\* contextual) that flag position j with severity high, by evaluation order
EarlierHigh(j) ==
    LET subs == SubDetectors(sensitivityLevel, historicalBaseline,
                             detectCall.data, detectCall.windowSize, j)
    IN  {d \in 1..3 : subs[d].isAnomaly /\ subs[d].severity = "high"}

\* C4 (as stated): every scored sample that is 3 times the mean of the 6
\* samples before it (trailing mean > 0) yields isAnomaly = true, severity =
\* high and type = spike, whatever the other sub-detectors report.
C4_ThreeTimesIsHighSpike ==
    detectCall.called =>
        \A k \in 1..Len(detectCall.result) :
            ThreeTimesTrailingMean(detectCall.data, ScoredPosition(k)) =>
                /\ detectCall.result[k].isAnomaly
                /\ detectCall.result[k].severity = "high"
                /\ detectCall.result[k].type = "spike"

\* C4 (amended): such a sample yields isAnomaly = true and severity = high;
\* its type is spike unless the statistical, pattern or contextual detector
\* also flags it with severity high, and then it is the type of the first of
\* these in evaluation order (spike or drop for statistical, else pattern).
C4_ThreeTimesIsHighFirstType ==
    detectCall.called =>
        \A k \in 1..Len(detectCall.result) :
            LET j == ScoredPosition(k)
                record == detectCall.result[k]
                subs == SubDetectors(sensitivityLevel, historicalBaseline,
                                     detectCall.data, detectCall.windowSize, j)
                first == CHOOSE d \in EarlierHigh(j) : \A o \in EarlierHigh(j) : d <= o
            IN  ThreeTimesTrailingMean(detectCall.data, j) =>
                    /\ record.isAnomaly
                    /\ record.severity = "high"
                    /\ EarlierHigh(j) = {} => record.type = "spike"
                    /\ EarlierHigh(j) # {} =>
                          /\ record.type = subs[first].type
                          /\ record.type \in IF first = 1 THEN {"spike", "drop"}
                                             ELSE {"pattern"}

\* a call scored a sample 3 times its positive trailing mean that only the
\* equipment detector flags: the record is a high spike
C4_Witness ==
    /\ detectCall.called
    /\ \E k \in 1..Len(detectCall.result) :
            LET j == ScoredPosition(k)
                subs == SubDetectors(sensitivityLevel, historicalBaseline,
                                     detectCall.data, detectCall.windowSize, j)
            IN  /\ ThreeTimesTrailingMean(detectCall.data, j)
                /\ \A d \in 1..3 : ~subs[d].isAnomaly
                /\ detectCall.result[k].isAnomaly
                /\ detectCall.result[k].type = "spike"

\* C12: two calls of detectAnomalies with identical history and window size
\* on the same detector return identical record sequences: the same length and
\* the same timestamp, value, isAnomaly, severity, type and confidence at every
\* position.
C12_SameInputSameRecords ==
    (detectCall.called /\ detectCall.previous.called
        /\ detectCall.previous.data = detectCall.data
        /\ detectCall.previous.windowSize = detectCall.windowSize) =>
        /\ Len(detectCall.previous.result) = Len(detectCall.result)
        /\ \A k \in 1..Len(detectCall.result) :
              /\ detectCall.previous.result[k].timestamp = detectCall.result[k].timestamp
              /\ detectCall.previous.result[k].value = detectCall.result[k].value
              /\ detectCall.previous.result[k].isAnomaly = detectCall.result[k].isAnomaly
              /\ detectCall.previous.result[k].severity = detectCall.result[k].severity
              /\ detectCall.previous.result[k].type = detectCall.result[k].type
              /\ detectCall.previous.result[k].confidence = detectCall.result[k].confidence

\* the same history and window size were passed twice in a row, and the
\* pattern detector, which reads the map, flagged a scored sample
C12_Witness ==
    /\ detectCall.called /\ detectCall.previous.called
    /\ detectCall.previous.data = detectCall.data
    /\ detectCall.previous.windowSize = detectCall.windowSize
    /\ \E k \in 1..Len(detectCall.result) :
            /\ detectCall.result[k].isAnomaly
            /\ detectPatternAnomaly(historicalBaseline,
                                    detectCall.data[ScoredPosition(k)]).isAnomaly

\* C13: detectAnomalies(history, windowSize) returns exactly one record for
\* each index i with max(windowSize, 24) <= i < len(history), in index order,
\* each with that sample's timestamp and consumption; earlier samples get no
\* record, and a history no longer than max(windowSize, 24) yields none.
C13_OneRecordPerScoredSample ==
    detectCall.called =>
        LET from == IF detectCall.windowSize > 24 THEN detectCall.windowSize ELSE 24
            \* the sample at index i (from 0)
            sample(i) == detectCall.data[i + 1]
        IN  /\ Len(detectCall.result) =
                  IF Len(detectCall.data) > from THEN Len(detectCall.data) - from ELSE 0
            /\ \A k \in 1..Len(detectCall.result) :
                  /\ detectCall.result[k].timestamp = sample(from + k - 1).timestamp
                  /\ detectCall.result[k].value = sample(from + k - 1).kwh

\* a call with windowSize 25 on 27 samples: two records, none for index 24
C13_Witness ==
    /\ detectCall.called
    /\ detectCall.windowSize = 25
    /\ Len(detectCall.data) = 27
    /\ Len(detectCall.result) = 2
    /\ detectCall.result[1].timestamp = detectCall.data[26].timestamp

\* the rank of a severity
SeverityRank(severity) ==
    IF severity = "high" THEN 3 ELSE IF severity = "medium" THEN 2 ELSE 1

\* C14: for each scored sample, isAnomaly = true iff at least one of the four
\* sub-detectors flags it; severity and type are those of the flagging
\* sub-detector of highest severity, the earliest in the order statistical,
\* pattern, contextual, equipment among equals; if none flags, the record is
\* isAnomaly = false, severity = low, confidence = 0.95, with no type.
C14_MostSevereEarliestWins ==
    detectCall.called =>
        \A k \in 1..Len(detectCall.result) :
            LET record == detectCall.result[k]
                subs == SubDetectors(sensitivityLevel, historicalBaseline, detectCall.data,
                                     detectCall.windowSize, ScoredPosition(k))
                flagging == {d \in 1..4 : subs[d].isAnomaly}
                wins(d) == \A o \in flagging :
                              \/ SeverityRank(subs[d].severity) > SeverityRank(subs[o].severity)
                              \/ /\ SeverityRank(subs[d].severity) = SeverityRank(subs[o].severity)
                                 /\ d <= o
            IN  /\ record.isAnomaly <=> flagging # {}
                /\ flagging # {} =>
                      \E d \in flagging :
                          /\ wins(d)
                          /\ record.severity = subs[d].severity
                          /\ record.type = subs[d].type
                /\ flagging = {} =>
                      /\ record.severity = "low"
                      /\ record.confidence = 570
                      /\ record.type = "undefined"

\* a scored sample that the pattern detector flags medium and the equipment
\* detector, later in the order, flags high: the record is the high spike
C14_Witness ==
    /\ detectCall.called
    /\ \E k \in 1..Len(detectCall.result) :
            LET subs == SubDetectors(sensitivityLevel, historicalBaseline, detectCall.data,
                                     detectCall.windowSize, ScoredPosition(k))
            IN  /\ subs[2].isAnomaly /\ subs[2].severity = "medium"
                /\ subs[4].isAnomaly /\ subs[4].severity = "high"
                /\ detectCall.result[k].severity = "high"
                /\ detectCall.result[k].type = "spike"

\* C18: the statistical sub-detector grades a flagged sample by the band its
\* z-score falls in between the profile's three cutoffs: low above the least
\* cutoff, medium above the middle one, high above the greatest (so each
\* profile has z-scores yielding each severity); the type is spike when the
\* value exceeds the window mean and drop otherwise.
C18_SeverityByZScoreBand ==
    detectCall.called =>
        \A k \in 1..Len(detectCall.result) :
            LET j == ScoredPosition(k)
                current == detectCall.data[j]
                values == Kwh(SubSeq(detectCall.data, j - detectCall.windowSize, j - 1))
                statistical == SubDetectors(sensitivityLevel, historicalBaseline,
                                            detectCall.data, detectCall.windowSize, j)[1]
                cutoffs == {Thresholds(sensitivityLevel).high,
                            Thresholds(sensitivityLevel).medium,
                            Thresholds(sensitivityLevel).low}
                least == CHOOSE c \in cutoffs : \A o \in cutoffs : c <= o
                greatest == CHOOSE c \in cutoffs : \A o \in cutoffs : c >= o
                middle == CHOOSE c \in cutoffs : c # least /\ c # greatest
                sum == SumOver(LAMBDA m : values[m], Len(values))
            IN  /\ statistical.isAnomaly <=> ZScoreExceeds(current.kwh, values, least)
                /\ statistical.isAnomaly =>
                      statistical.severity =
                          IF ZScoreExceeds(current.kwh, values, greatest) THEN "high"
                          ELSE IF ZScoreExceeds(current.kwh, values, middle) THEN "medium"
                          ELSE "low"
                /\ statistical.type = IF Len(values) * current.kwh > sum
                                      THEN "spike" ELSE "drop"

\* C19: given at least 3 trailing samples with mean m, the equipment
\* sub-detector reports high/drop if current < 0.4 m, otherwise high/spike if
\* current > 2.0 m, otherwise medium/sustained if every trailing value and the
\* current value exceeds 1.3 m or every one is below 0.7 m, otherwise not
\* anomalous; with fewer than 3 trailing samples it is not anomalous.
C19_EquipmentRules ==
    equipmentCall.called =>
        LET n == Len(equipmentCall.recentData)
            \* n * m
            total == SumOver(LAMBDA j : equipmentCall.recentData[j].kwh, n)
            cur == equipmentCall.current.kwh
            everyone == {equipmentCall.recentData[j].kwh : j \in 1..n} \union {cur}
            r == equipmentCall.result
            quiet == ~r.isAnomaly /\ r.severity = "low" /\ r.type = "undefined"
        IN  IF n < 3 THEN quiet
            ELSE IF 10 * n * cur < 4 * total
            THEN r.isAnomaly /\ r.severity = "high" /\ r.type = "drop"
            ELSE IF n * cur > 2 * total
            THEN r.isAnomaly /\ r.severity = "high" /\ r.type = "spike"
            ELSE IF \/ \A v \in everyone : 10 * n * v > 13 * total
                    \/ \A v \in everyone : 10 * n * v < 7 * total
            THEN r.isAnomaly /\ r.severity = "medium" /\ r.type = "sustained"
            ELSE quiet

\* an application with exactly 3 trailing samples and a current value just
\* below 0.4 times their mean: high/drop
C19_Witness ==
    /\ equipmentCall.called
    /\ Len(equipmentCall.recentData) = 3
    /\ \A j \in 1..3 : equipmentCall.recentData[j].kwh = 10
    /\ equipmentCall.current.kwh = 3
    /\ equipmentCall.result.type = "drop"

\* C20: the pattern sub-detector abstains exactly when the baseline map has no
\* entry for the sample's (day-of-week, hour) key; whenever an entry exists (the
\* median of that bucket of the history) it flags the sample iff |current -
\* baseline| / baseline > 0.2, with severity high above 0.5, medium above 0.3
\* and low above 0.2.  (For an entry of 0 the quotient is Infinity, or NaN for
\* a current value of 0.)
C20_PatternAbstainsOnlyWithoutEntry ==
    detectCall.called =>
        \A k \in 1..Len(detectCall.result) :
            LET j == ScoredPosition(k)
                current == detectCall.data[j]
                key == <<(current.timestamp \div 24) % 7, current.timestamp % 24>>
                pattern == SubDetectors(sensitivityLevel, historicalBaseline,
                                        detectCall.data, detectCall.windowSize, j)[2]
                baseline == historicalBaseline[key]
                distance == IF current.kwh > baseline THEN current.kwh - baseline
                            ELSE baseline - current.kwh
                above(tenths) == IF baseline > 0 THEN 10 * distance > tenths * baseline
                                 ELSE baseline = 0 /\ distance > 0
            IN  IF key \notin DOMAIN historicalBaseline
                THEN ~pattern.isAnomaly
                ELSE /\ pattern.isAnomaly <=> above(2)
                     /\ pattern.isAnomaly =>
                           pattern.severity = IF above(5) THEN "high"
                                              ELSE IF above(3) THEN "medium"
                                              ELSE "low"

-----------------------------------------------------------------------------
(* Properties of detectContextualAnomaly *)

\* the window samples in the scored sample's context: less than 5 degrees and
\* less than 0.2 of occupancy away, in the same business-hour category
InContext(current, d) ==
    /\ Abs(d.temperature - current.temperature) < 5
    /\ Abs(d.occupancy - current.occupancy) < 20
    /\ (GetHours(d.timestamp) \in 8..18) = (GetHours(current.timestamp) \in 8..18)

\* the fence of the samples in context, doubled:
\* [2 Q1 - 3 IQR, 2 Q3 + 3 IQR]
Fence(current, window) ==
    calculateExpectedRange(SelectSeq(window, LAMBDA d : InContext(current, d)))

\* the distance of a doubled value outside the fence to the nearer fence
\* bound, relative to that bound's size, is above hundredths / 100
FenceDistanceAbove(value2, fence, hundredths) ==
    LET bound == IF value2 < fence.min2 THEN fence.min2 ELSE fence.max2
    IN  IF bound = 0 THEN TRUE
        ELSE 100 * Abs(value2 - bound) > hundredths * Abs(bound)

\* C21: the contextual sub-detector restricts the trailing window to the
\* samples within 5 degrees, within 0.2 of occupancy and in the same
\* business-hour category (8-18) as the scored sample; with fewer than 3 of
\* them it is not anomalous, otherwise it flags the sample iff its value is
\* outside [Q1 - 1.5 IQR, Q3 + 1.5 IQR], with severity high / medium / low by
\* the relative distance to the nearer fence bound (above 0.4, above 0.25,
\* otherwise).
C21_SeverityByNearerFenceBound ==
    contextualCall.called =>
        LET current == contextualCall.current
            window == contextualCall.window
            similar == {j \in 1..Len(window) : InContext(current, window[j])}
            fence == Fence(current, window)
            outside == 2 * current.kwh < fence.min2 \/ 2 * current.kwh > fence.max2
            r == contextualCall.result
        IN  IF Cardinality(similar) < 3
            THEN ~r.isAnomaly
            ELSE /\ r.isAnomaly <=> outside
                 /\ r.isAnomaly =>
                       r.severity =
                           IF FenceDistanceAbove(2 * current.kwh, fence, 40) THEN "high"
                           ELSE IF FenceDistanceAbove(2 * current.kwh, fence, 25) THEN "medium"
                           ELSE "low"

-----------------------------------------------------------------------------
(* Properties of the records of detectAnomalies *)

\* the sub-detectors that flag the sample of the k-th record of the call
Flagging(k) ==
    LET subs == SubDetectors(sensitivityLevel, historicalBaseline,
                             detectCall.data, detectCall.windowSize,
                             ScoredPosition(k))
    IN  SelectSeq(subs, LAMBDA a : a.isAnomaly)

\* C22: the confidence of a flagged record is min(0.98, 0.5 + (mean severity
\* score / 3) * 0.3 + (number of flagging sub-detectors / 4) * 0.2) with
\* scores low = 1, medium = 2, high = 3; so it lies in [0.65, 0.98] and is
\* 0.98 only when all four sub-detectors flag with severity high.
\* (Confidence in 1/600: 0.5 = 300, 0.65 = 390, 0.98 = 588.)
C22_FlaggedConfidence ==
    detectCall.called =>
        \A k \in 1..Len(detectCall.result) :
            LET record == detectCall.result[k]
                flagging == Flagging(k)
                count == Len(flagging)
                score(a) == CASE a.severity = "low" -> 1
                              [] a.severity = "medium" -> 2
                              [] a.severity = "high" -> 3
                total == SumOver(LAMBDA j : score(flagging[j]), count)
                \* 600 * (0.5 + (total / count / 3) * 0.3 + (count / 4) * 0.2)
                uncapped4 == 4 * 300 * count + 4 * 60 * total + 4 * 30 * count * count
            IN  record.isAnomaly =>
                    /\ count > 0
                    /\ 4 * count * record.confidence = Min(4 * count * 588, uncapped4)
                    /\ record.confidence >= 390
                    /\ record.confidence <= 588
                    /\ record.confidence = 588 =>
                          /\ count = 4
                          /\ \A j \in 1..4 : flagging[j].severity = "high"

\* a record whose sample all four sub-detectors flag with severity high: the
\* sum is 0.5 + 0.3 + 0.2 and the confidence is the cap
C22_Witness ==
    /\ detectCall.called
    /\ \E k \in 1..Len(detectCall.result) :
          /\ detectCall.result[k].isAnomaly
          /\ Len(Flagging(k)) = 4
          /\ \A j \in 1..4 : Flagging(k)[j].severity = "high"
          /\ detectCall.result[k].confidence = 588

\* C23: the records detectAnomalies returns depend only on its arguments and
\* the detector's sensitivity: a detector that has served other calls before
\* returns, for the same history and window size, the records a newly
\* constructed detector of the same sensitivity returns; no entry left in the
\* baseline map by an earlier call influences a later result.
C23_EarlierCallsDoNotMatter ==
    detectCall.called =>
        detectCall.result = RebuildAndScore(sensitivityLevel, << >>,
                                            detectCall.data, detectCall.windowSize)

\* a second call on a history other than the first call's, with a flagged
\* record, on a detector whose map still holds an entry of the first call
\* (a key the second history does not have)
C23_Witness ==
    /\ detectCall.called
    /\ detectCall.calls = 2
    /\ detectCall.previous.data # detectCall.data
    /\ \E key \in DOMAIN historicalBaseline : key \notin HistoryKeys(detectCall.data)
    /\ \E k \in 1..Len(detectCall.result) : detectCall.result[k].isAnomaly

-----------------------------------------------------------------------------
(* Further properties of detectEquipmentAnomaly *)

\* C24: on non-negative consumption values the equipment sub-detector never
\* reports medium / sustained, so no record gets the type sustained from it.
C24_NeverSustained ==
    (/\ equipmentCall.called
     /\ equipmentCall.current.kwh >= 0
     /\ \A j \in 1..Len(equipmentCall.recentData) : equipmentCall.recentData[j].kwh >= 0)
    => /\ equipmentCall.result.type # "sustained"
       /\ ~(equipmentCall.result.isAnomaly /\ equipmentCall.result.severity = "medium")

\* an application that reaches the sustained rule: at least 3 trailing
\* samples, neither drop nor spike, with a value above 1.3 times the recent
\* average and a value below 0.7 times it
C24_Witness ==
    /\ equipmentCall.called
    /\ Len(equipmentCall.recentData) >= 3
    /\ ~equipmentCall.result.isAnomaly
    /\ LET n == Len(equipmentCall.recentData)
           total == SumOver(LAMBDA j : equipmentCall.recentData[j].kwh, n)
       IN  /\ 10 * n * equipmentCall.current.kwh > 13 * total
           /\ \E j \in 1..n : 10 * n * equipmentCall.recentData[j].kwh < 7 * total

-----------------------------------------------------------------------------
(* Further properties of optimizeLoadShifting *)

\* load k's window is not empty and every hour of it indexes the hourly arrays
ShiftWindowWithin(k) ==
    /\ Len(shiftCall.flexibleLoads[k].timeWindow) > 0
    /\ ShiftEvaluated(k) = 1..Len(shiftCall.flexibleLoads[k].timeWindow)

\* C25: for every flexible load whose window is not empty and lies entirely
\* within the demands array, the chosen hour costs no more than the window's
\* first hour, so its savings are >= 0; and when that holds of every load of
\* the call, totalSavings >= 0.
C25_WindowWithinArraysSavings ==
    shiftCall.called =>
        /\ \A k \in 1..Len(shiftCall.flexibleLoads) :
              LET entry == shiftCall.result.shiftedLoads[k]
                  w == shiftCall.flexibleLoads[k].timeWindow
              IN  ShiftWindowWithin(k) =>
                      /\ IsNum(entry.optimalHour)
                      /\ \E j \in 1..Len(w) : w[j] = entry.optimalHour.val
                      /\ IsNum(ShiftCost(k, entry.optimalHour.val))
                      /\ ShiftCost(k, entry.optimalHour.val).val <= ShiftCost(k, w[1]).val
                      /\ IsNum(entry.savings)
                      /\ entry.savings.val >= 0
        /\ (\A k \in 1..Len(shiftCall.flexibleLoads) : ShiftWindowWithin(k)) =>
              /\ IsNum(shiftCall.result.totalSavings)
              /\ shiftCall.result.totalSavings.val >= 0

\* a call with two loads, both windows within the arrays: one is moved to a
\* cheaper hour, the other stays at its first hour although its window has
\* other hours, and the total is positive
C25_Witness ==
    /\ shiftCall.called
    /\ Len(shiftCall.flexibleLoads) = 2
    /\ \A k \in 1..2 : ShiftWindowWithin(k)
                       /\ Len(shiftCall.flexibleLoads[k].timeWindow) >= 2
    /\ \E k \in 1..2 : /\ shiftCall.result.shiftedLoads[k].optimalHour
                              # shiftCall.result.shiftedLoads[k].originalHour
                       /\ shiftCall.result.shiftedLoads[k].savings.val > 0
    /\ \E k \in 1..2 : /\ shiftCall.result.shiftedLoads[k].optimalHour
                              = shiftCall.result.shiftedLoads[k].originalHour
                       /\ shiftCall.result.shiftedLoads[k].savings = Num(0)
    /\ shiftCall.result.totalSavings.val > 0

-----------------------------------------------------------------------------
(* Further properties of optimize *)

\* C26: for every call of optimize with demand >= 0 and solar >= 0 the result
\* never has both batteryCharge > 0 and batteryKwh > 0: the battery is not
\* charged and discharged in the same period.
C26_NeverChargeAndDischarge ==
    (optCall.called /\ optCall.demandKwh >= 0 /\ optCall.solarAvailableKwh >= 0) =>
        /\ ~(optCall.result.batteryCharge > 0 /\ optCall.result.batteryKwh > 0)
        /\ ~(OptDispatch.batteryCharge > 0 /\ OptDispatch.batteryDischarge > 0)

\* a peak-hour call with solar above a positive demand and a battery that is
\* neither empty nor full: the excess charges the battery, and although the
\* battery may serve demand at peak, none is left for it
C26_Witness ==
    /\ optCall.called
    /\ optCall.timeOfUse = "peak"
    /\ optCall.demandKwh > 0
    /\ optCall.solarAvailableKwh > optCall.demandKwh
    /\ optCall.batteryLevel > 0
    /\ optCall.batteryLevel < BatteryCapacity
    /\ optCall.result.batteryCharge > 0
    /\ optCall.result.batteryKwh = 0

-----------------------------------------------------------------------------
(* Properties of App's live loop *)

\* C27: after every tick in which the dispatch of optimize has a nonzero
\* discharge or a nonzero charge, the battery level App holds is
\* clamp(0, 50, previous - discharge + charge); it is unchanged only when
\* both are zero.
C27_LevelFollowsDispatch ==
    (app.mounted /\ app.tick.called /\ app.tick.optimizeRan) =>
        LET discharge == 10 * app.tick.optimizationResult.batteryKwh
            charge == 10 * app.tick.optimizationResult.batteryCharge
        IN  IF discharge # 0 \/ charge # 0
            THEN app.batteryLevel =
                     Max(0, Min(50000, app.tick.previousLevel - discharge + charge))
            ELSE app.batteryLevel = app.tick.previousLevel

\* C28: App calls forecastNextHour only on histories of more than 48 samples,
\* so its error is never raised; a tick whose history has at most 48 samples
\* appends the sample and runs neither the forecast, optimize nor
\* detectAnomalies.
C28_ForecastOnlyOnLongHistory ==
    app.mounted =>
        /\ \A length \in app.forecastLengths : length > 48
        /\ ~app.raised
        /\ app.tick.called =>
              /\ app.tick.forecastRan => (app.tick.length > 48 /\ ~app.tick.forecastThrew)
              /\ app.tick.length <= 48 =>
                    /\ app.energyData[Len(app.energyData)] = app.tick.previousLast + 1
                    /\ ~app.tick.forecastRan
                    /\ ~app.tick.optimizeRan
                    /\ ~app.tick.detectRan

\* a tick on a history of more than 48 samples that ran the forecast, optimize
\* and detectAnomalies
C28_Witness ==
    /\ app.mounted
    /\ app.tick.called
    /\ app.tick.length > 48
    /\ app.tick.forecastRan
    /\ ~app.tick.forecastThrew
    /\ app.tick.optimizeRan
    /\ app.tick.detectRan
    /\ app.forecast # Null

\* C29: the history App keeps never has more than 336 samples: each tick
\* appends exactly one sample, timestamped one hour after the previous last
\* one, and drops the oldest beyond 336, so the history stays ordered.
C29_HistoryBounded ==
    app.mounted =>
        /\ Len(app.energyData) <= 336
        /\ \A j \in 1..(Len(app.energyData) - 1) :
              app.energyData[j] < app.energyData[j + 1]
        /\ app.tick.called =>
              /\ app.energyData[Len(app.energyData)] = app.tick.previousLast + 1
              /\ Len(app.energyData) = Min(336, app.tick.previousLength + 1)
              /\ app.energyData[Len(app.energyData) - 1] = app.tick.previousLast
              /\ app.tick.previousLength < 336 => app.energyData[1] = app.tick.previousFirst
              /\ app.tick.previousLength = 336 => app.energyData[1] > app.tick.previousFirst

\* the third tick on a history of 336 samples: the three oldest are gone
C29_Witness ==
    /\ app.mounted
    /\ app.tick.called
    /\ app.ticks = 3
    /\ app.tick.previousLength = 336
    /\ Len(app.energyData) = 336
    /\ app.energyData[1] = app.tick.previousFirst + 1
    /\ app.energyData[336] = app.tick.previousLast + 1

-----------------------------------------------------------------------------
(* Properties of getAnomalyStats *)

\* C30: getAnomalyStats counts only the flagged records, and its total equals
\* high + medium + low and equals spikes + drops + sustained + patterns.
C30_StatsAddUp ==
    statsCall.called =>
        LET stats == statsCall.result
            flagged == {k \in 1..Len(statsCall.anomalies) : statsCall.anomalies[k].isAnomaly}
        IN  /\ stats.total = Cardinality(flagged)
            /\ stats.high = Cardinality({k \in flagged :
                                            statsCall.anomalies[k].severity = "high"})
            /\ stats.total = stats.high + stats.medium + stats.low
            /\ stats.total = stats.types.spikes + stats.types.drops
                             + stats.types.sustained + stats.types.patterns

\* the records of one call, of which one is flagged (a spike of severity
\* high) and one is not
C30_Witness ==
    /\ statsCall.called
    /\ Len(statsCall.anomalies) = 2
    /\ ~statsCall.anomalies[1].isAnomaly
    /\ statsCall.anomalies[2].isAnomaly
    /\ statsCall.result.total = 1
    /\ statsCall.result.high = 1
    /\ statsCall.result.types.spikes = 1

=============================================================================
